---- MODULE Spec2Model ----
(***************************************************************************)
(* Agent-Negotiation-System: the termination state machine                 *)
(* (04_fsm/state_machine.py), the deterministic buyer and seller           *)
(* strategies (05_agents) and the orchestration of the two nodes           *)
(* (06_orchestration/graph.py), once under the router-based graph and once *)
(* under _run_simple_loop.                                                 *)
(*                                                                         *)
(* Prices are Python floats in the source.  Here a price is an integer     *)
(* number of thousandths of the currency unit, so that a price with more   *)
(* than two decimals (100.006) is a value of the model and round(x, 2) is  *)
(* a real rounding to a multiple of 10.  Products with the strategy        *)
(* factors (0.60, 1.08, 0.98, 0.3, 0.95, 0.8) are kept as exact fractions  *)
(* over 100.                                                               *)
(***************************************************************************)
EXTENDS Integers, Sequences, FiniteSets, TLC

VARIABLES
    sess,   \* the NegotiationState dict of each orchestrated run, with its engine and position
    fsm,    \* the NegotiationFSM object: state and FSMContext
    last,   \* the last NegotiationFSM method called, its argument and its return value
    hist,   \* whether the calls so far are start() then process_turn() only, and how many of these
    policy, \* the CoordinationPolicy object: its two limits and require_price_progress
    verdict, \* the last CoordinationPolicy method called, its arguments and its PolicyResult
    decision, \* the last call of buyer_strategy or seller_strategy: its arguments and its response
    built,  \* the last construction of a protocol message: its arguments and its outcome
    judgment, \* the last call of NegotiationJudge.judge_protocol: its log and its Judgment
    traces, \* the NegotiationTracer object: the trace kept under each session id
    runtime, \* a call of NegotiationRuntime._run_simple_negotiation: its Session, its locals and its position
    codec, \* a message on its way through to_dict and parse_message
    channel, \* the A2AChannel object: inboxes, task history, subscribers, lock
    threads \* the threads calling the channel: their call stacks, and what was sent and received

vars == <<sess, fsm, last, hist, policy, verdict, decision, built, judgment, traces, runtime, codec, channel, threads>>

\* Python's None, for optional prices (prices are never negative)
None == 0 - 1

NoReason == "None"

(***************************************************************************)
(* Bounds of the model.                                                    *)
(***************************************************************************)
MaxTurnsBound == 10
MaxRecorded == 12

BuyerMaxValues == {9, 100002, 100006, 200000, 350000, 500000}
SellerMinValues == {12, 100004, 110000, 350000, 500000}
AskingValues == {50, 150000, 400000, 600000}
MaxTurnsValues == 1..MaxTurnsBound

(***************************************************************************)
(* round(x, 2) for x = n / d thousandths, n >= 0: the nearest multiple of  *)
(* 10.  At an exact decimal tie the source's result depends on the binary  *)
(* float nearest to x; here a tie goes to the even hundredth, which is     *)
(* what the source returns on every configuration of the price sets above. *)
(***************************************************************************)
Round2(n, d) ==
    LET q == n \div (10 * d)
        r == n % (10 * d)
    IN  IF 2 * r < 10 * d THEN 10 * q
        ELSE IF 2 * r > 10 * d THEN 10 * (q + 1)
        ELSE IF q % 2 = 0 THEN 10 * q ELSE 10 * (q + 1)

Min(a, b) == IF a <= b THEN a ELSE b
Max(a, b) == IF a >= b THEN a ELSE b

Response(type, price, original, note) ==
    [type |-> type, price |-> price, original_price |-> original, note |-> note]

(***************************************************************************)
(* 05_agents/buyer.py                                                      *)
(***************************************************************************)
\* buyer_strategy accepting only below its maximum
buyer_strategy_strict_accept(current_offer, max_price, turn, max_turns, previous_offer) ==
    IF current_offer < max_price
    THEN Response("accept", current_offer, None, "Accepted seller's price")
    ELSE
        LET raw == IF previous_offer = None
                   THEN max_price * 60
                   ELSE previous_offer * 108
            capped == Min(raw, max_price * 100)
            new_offer == Round2(capped, 100)
        IN  IF turn >= max_turns - 1 /\ new_offer * 100 >= max_price * 95
            THEN Response("offer", max_price, None, "Final offer at maximum budget")
            ELSE Response("offer", new_offer, None, "Offer")

\* buyer_strategy making its final offer on the turn before the last as well
buyer_strategy_final_early(current_offer, max_price, turn, max_turns, previous_offer) ==
    IF current_offer <= max_price
    THEN Response("accept", current_offer, None, "Accepted seller's price")
    ELSE
        LET raw == IF previous_offer = None
                   THEN max_price * 60
                   ELSE previous_offer * 108
            capped == Min(raw, max_price * 100)
            new_offer == Round2(capped, 100)
        IN  IF turn >= max_turns - 2 /\ new_offer * 100 >= max_price * 95
            THEN Response("offer", max_price, None, "Final offer at maximum budget")
            ELSE Response("offer", new_offer, None, "Offer")

buyer_strategy(current_offer, max_price, turn, max_turns, previous_offer) ==
    IF current_offer <= max_price
    THEN Response("accept", current_offer, None, "Accepted seller's price")
    ELSE
        LET raw == IF previous_offer = None
                   THEN max_price * 60
                   ELSE previous_offer * 108
            capped == Min(raw, max_price * 100)
            new_offer == Round2(capped, 100)
        IN  IF turn >= max_turns - 1 /\ new_offer * 100 >= max_price * 95
            THEN Response("offer", max_price, None, "Final offer at maximum budget")
            ELSE Response("offer", new_offer, None, "Offer")

(***************************************************************************)
(* 09_context/server.py: the grounded-context provider.  A Python dict is  *)
(* a function from its keys.  mcp_server is None, an MCPServer with its    *)
(* table of pricing rules, or another object with a get_pricing_rules      *)
(* method (kind "stub") that returns the dict in its field answer.  A call *)
(* gives [raised, rules]: whether it raised and, if not, the dict.         *)
(***************************************************************************)
EmptyDict == [k \in {} |-> 0]

NoServer == [kind |-> "None", _pricing_rules |-> EmptyDict, answer |-> EmptyDict]

MCPServer(_pricing_rules) ==
    [kind |-> "MCPServer", _pricing_rules |-> _pricing_rules, answer |-> EmptyDict]

StubServer(answer) ==
    [kind |-> "stub", _pricing_rules |-> EmptyDict, answer |-> answer]

\* customer_segment takes its default "standard": discount_multiplier 1.0
get_pricing_rules(mcp_server, product_id) ==
    IF mcp_server.kind = "stub"
    THEN [raised |-> FALSE, rules |-> mcp_server.answer]
    ELSE IF product_id \notin DOMAIN mcp_server._pricing_rules
    THEN [raised |-> TRUE, rules |-> EmptyDict]
    ELSE LET min_price == mcp_server._pricing_rules[product_id]
             effective_min == Round2(min_price * 100, 100)
         IN  [raised |-> FALSE,
              rules |-> [k \in {"min_price", "effective_min"} |->
                            IF k = "min_price" THEN min_price ELSE effective_min]]

\* the lookup without its try/except: an exception of the provider leaves
\* seller_strategy with no minimum to compare with
effective_minimum_unguarded(min_price, mcp_server) ==
    IF mcp_server.kind = "None" THEN min_price
    ELSE LET pricing == get_pricing_rules(mcp_server, "enterprise-license")
         IN  IF pricing.raised THEN None
             ELSE IF "effective_min" \in DOMAIN pricing.rules
             THEN pricing.rules["effective_min"] ELSE min_price

\* seller.py lines 46-54: the effective minimum.  The answer's value is taken
\* as it is: None if the dict holds None under "effective_min"
effective_minimum(min_price, mcp_server) ==
    IF mcp_server.kind = "None" THEN min_price
    ELSE LET pricing == get_pricing_rules(mcp_server, "enterprise-license")
         IN  IF pricing.raised THEN min_price
             ELSE IF "effective_min" \in DOMAIN pricing.rules
             THEN pricing.rules["effective_min"] ELSE min_price

\* seller_strategy rejecting a far-off offer on any turn
seller_strategy_rejects_early(buyer_offer, min_price, asking_price, turn, max_turns, previous_counter, mcp_server) ==
    LET effective_min == effective_minimum(min_price, mcp_server)
    IN  IF effective_min = None
        THEN Response("raise", None, None, "TypeError")
        ELSE IF buyer_offer >= effective_min
        THEN Response("accept", buyer_offer, None, "Accepted buyer's offer")
        ELSE
            LET raw == IF previous_counter = None
                       THEN asking_price * 98
                       ELSE previous_counter * 100 - (previous_counter - buyer_offer) * 30
                floored == Max(raw, effective_min * 100)
                new_counter == Round2(floored, 100)
            IN  IF buyer_offer * 10 < effective_min * 8
                THEN Response("reject", None, None, "Offer too far below acceptable range")
                ELSE Response("counter", new_counter, buyer_offer, "Counter offer")

\* seller_strategy without its reject branch
seller_strategy_never_rejects(buyer_offer, min_price, asking_price, turn, max_turns, previous_counter, mcp_server) ==
    LET effective_min == effective_minimum(min_price, mcp_server)
    IN  IF buyer_offer >= effective_min
        THEN Response("accept", buyer_offer, None, "Accepted buyer's offer")
        ELSE
            LET raw == IF previous_counter = None
                       THEN asking_price * 98
                       ELSE previous_counter * 100 - (previous_counter - buyer_offer) * 30
                floored == Max(raw, effective_min * 100)
                new_counter == Round2(floored, 100)
            IN  Response("counter", new_counter, buyer_offer, "Counter offer")

\* seller_strategy without the floor at the minimum
seller_strategy_no_floor(buyer_offer, min_price, asking_price, turn, max_turns, previous_counter, mcp_server) ==
    LET effective_min == effective_minimum(min_price, mcp_server)
    IN  IF buyer_offer >= effective_min
        THEN Response("accept", buyer_offer, None, "Accepted buyer's offer")
        ELSE
            LET raw == IF previous_counter = None
                       THEN asking_price * 98
                       ELSE previous_counter * 100 - (previous_counter - buyer_offer) * 30
                new_counter == Round2(raw, 100)
            IN  IF turn >= max_turns - 2 /\ buyer_offer * 10 < effective_min * 8
                THEN Response("reject", None, None, "Offer too far below acceptable range")
                ELSE Response("counter", new_counter, buyer_offer, "Counter offer")

(***************************************************************************)
(* 05_agents/seller.py.  06_orchestration calls it without an mcp_server.  *)
(* buyer_offer >= effective_min is outside the try: with a minimum that is *)
(* not a number Python raises TypeError, given as the response "raise".    *)
(***************************************************************************)
seller_strategy(buyer_offer, min_price, asking_price, turn, max_turns, previous_counter, mcp_server) ==
    LET effective_min == effective_minimum(min_price, mcp_server)
    IN  IF effective_min = None
        THEN Response("raise", None, None, "TypeError")
        ELSE IF buyer_offer >= effective_min
        THEN Response("accept", buyer_offer, None, "Accepted buyer's offer")
        ELSE
            LET raw == IF previous_counter = None
                       THEN asking_price * 98
                       ELSE previous_counter * 100 - (previous_counter - buyer_offer) * 30
                floored == Max(raw, effective_min * 100)
                new_counter == Round2(floored, 100)
            IN  IF turn >= max_turns - 2 /\ buyer_offer * 10 < effective_min * 8
                THEN Response("reject", None, None, "Offer too far below acceptable range")
                ELSE Response("counter", new_counter, buyer_offer, "Counter offer")

(***************************************************************************)
(* 06_orchestration/graph.py: the graph state and the two nodes.  A node   *)
(* returns a dict of updates that the engine writes over the state; the    *)
(* operators below give the state after the updates are applied.           *)
(***************************************************************************)
Sessions == {1, 2}

initial_state(buyer_max_price, seller_min_price, seller_asking_price, max_turns) ==
    [ buyer_max_price |-> buyer_max_price,
      seller_min_price |-> seller_min_price,
      seller_asking_price |-> seller_asking_price,
      max_turns |-> max_turns,
      current_turn |-> 0,
      whose_turn |-> "buyer",
      current_offer |-> seller_asking_price,
      previous_buyer_offer |-> None,
      previous_seller_counter |-> None,
      agreed |-> FALSE,
      final_price |-> None,
      failure_reason |-> NoReason,
      messages |-> <<>> ]

LogEntry(turn, agent, response) ==
    [turn |-> turn, agent |-> agent, message |-> response]

\* buyer_node counting a turn for its own message as well
buyer_node_counts_turn(state) ==
    LET response == buyer_strategy(state.current_offer, state.buyer_max_price,
                                   state.current_turn, state.max_turns,
                                   state.previous_buyer_offer)
        message == LogEntry(state.current_turn, "buyer", response)
        logged == [state EXCEPT !.messages = Append(state.messages, message),
                                !.whose_turn = "seller",
                                !.current_turn = state.current_turn + 1]
    IN  CASE response.type = "offer" ->
                [logged EXCEPT !.previous_buyer_offer = response.price]
          [] response.type = "accept" ->
                [logged EXCEPT !.agreed = TRUE, !.final_price = response.price]
          [] OTHER -> logged

\* buyer_node returning the new message as the whole log
buyer_node_overwrites_log(state) ==
    LET response == buyer_strategy(state.current_offer, state.buyer_max_price,
                                   state.current_turn, state.max_turns,
                                   state.previous_buyer_offer)
        message == LogEntry(state.current_turn, "buyer", response)
        logged == [state EXCEPT !.messages = <<message>>,
                                !.whose_turn = "seller"]
    IN  CASE response.type = "offer" ->
                [logged EXCEPT !.previous_buyer_offer = response.price]
          [] response.type = "accept" ->
                [logged EXCEPT !.agreed = TRUE, !.final_price = response.price]
          [] response.type = "reject" ->
                [logged EXCEPT !.failure_reason = "Buyer rejected"]
          [] OTHER -> logged

buyer_node(state) ==
    LET response == buyer_strategy(state.current_offer, state.buyer_max_price,
                                   state.current_turn, state.max_turns,
                                   state.previous_buyer_offer)
        message == LogEntry(state.current_turn, "buyer", response)
        logged == [state EXCEPT !.messages = Append(state.messages, message),
                                !.whose_turn = "seller"]
    IN  CASE response.type = "offer" ->
                [logged EXCEPT !.previous_buyer_offer = response.price]
          [] response.type = "accept" ->
                [logged EXCEPT !.agreed = TRUE, !.final_price = response.price]
          [] response.type = "reject" ->
                [logged EXCEPT !.failure_reason = "Buyer rejected"]
          [] OTHER -> logged

\* seller_node without its update of previous_seller_counter
seller_node_forgets_counter(state) ==
    LET buyer_offer == state.previous_buyer_offer
        response == seller_strategy(buyer_offer, state.seller_min_price,
                                    state.seller_asking_price, state.current_turn,
                                    state.max_turns, state.previous_seller_counter,
                                    NoServer)
        message == LogEntry(state.current_turn, "seller", response)
        logged == [state EXCEPT !.messages = Append(state.messages, message),
                                !.whose_turn = "buyer",
                                !.current_turn = state.current_turn + 1]
    IN  CASE response.type = "counter" ->
                [logged EXCEPT !.current_offer = response.price]
          [] response.type = "accept" ->
                [logged EXCEPT !.agreed = TRUE, !.final_price = response.price]
          [] response.type = "reject" ->
                [logged EXCEPT !.failure_reason = "Seller rejected"]
          [] OTHER -> logged

\* state.get("previous_buyer_offer", asking) never takes its default: the key is
\* always in the state, and the buyer has made an offer before any seller step
seller_node(state) ==
    LET buyer_offer == state.previous_buyer_offer
        response == seller_strategy(buyer_offer, state.seller_min_price,
                                    state.seller_asking_price, state.current_turn,
                                    state.max_turns, state.previous_seller_counter,
                                    NoServer)
        message == LogEntry(state.current_turn, "seller", response)
        logged == [state EXCEPT !.messages = Append(state.messages, message),
                                !.whose_turn = "buyer",
                                !.current_turn = state.current_turn + 1]
    IN  CASE response.type = "counter" ->
                [logged EXCEPT !.current_offer = response.price,
                               !.previous_seller_counter = response.price]
          [] response.type = "accept" ->
                [logged EXCEPT !.agreed = TRUE, !.final_price = response.price]
          [] response.type = "reject" ->
                [logged EXCEPT !.failure_reason = "Seller rejected"]
          [] OTHER -> logged

\* router with the turn limit tested by > instead of >=
router_late(state) ==
    IF state.agreed THEN "end"
    ELSE IF state.failure_reason # NoReason THEN "end"
    ELSE IF state.current_turn > state.max_turns THEN "end"
    ELSE IF state.whose_turn = "seller" THEN "seller"
    ELSE "buyer"

\* router without the test of agreed
router_ignores_agreed(state) ==
    IF state.failure_reason # NoReason THEN "end"
    ELSE IF state.current_turn >= state.max_turns THEN "end"
    ELSE IF state.whose_turn = "seller" THEN "seller"
    ELSE "buyer"

router(state) ==
    IF state.agreed THEN "end"
    ELSE IF state.failure_reason # NoReason THEN "end"
    ELSE IF state.current_turn >= state.max_turns THEN "end"
    ELSE IF state.whose_turn = "seller" THEN "seller"
    ELSE "buyer"

\* run_negotiation's return value, from the final state
Result(state) ==
    [ agreed |-> state.agreed,
      final_price |-> state.final_price,
      turns |-> state.current_turn,
      messages |-> state.messages ]

(***************************************************************************)
(* The graph engine as create_negotiation_graph wires it: entry point      *)
(* buyer, and after every node the router picks buyer, seller or END.      *)
(* sess[s].pc is the node the engine runs next.                            *)
(***************************************************************************)
GraphBuyer(s) ==
    /\ sess[s].engine = "graph"
    /\ sess[s].pc = "buyer"
    /\ LET after == buyer_node(sess[s].state)
       IN  sess' = [sess EXCEPT ![s].state = after, ![s].pc = router(after)]
    /\ UNCHANGED <<fsm, last, hist, policy, verdict, decision, built, judgment, traces, runtime, codec, channel, threads>>

\* GraphSeller keeping the seller's price in one place for every session
GraphSeller_shared_offer(s) ==
    /\ sess[s].engine = "graph"
    /\ sess[s].pc = "seller"
    /\ LET after == seller_node(sess[s].state)
       IN  sess' = [t \in Sessions |->
                      IF t = s THEN [sess[s] EXCEPT !.state = after, !.pc = router(after)]
                      ELSE [sess[t] EXCEPT !.state.current_offer = after.current_offer]]
    /\ UNCHANGED <<fsm, last, hist, policy, verdict, decision, built, judgment, traces, runtime, codec, channel, threads>>

GraphSeller(s) ==
    /\ sess[s].engine = "graph"
    /\ sess[s].pc = "seller"
    /\ LET after == seller_node(sess[s].state)
       IN  sess' = [sess EXCEPT ![s].state = after, ![s].pc = router(after)]
    /\ UNCHANGED <<fsm, last, hist, policy, verdict, decision, built, judgment, traces, runtime, codec, channel, threads>>

(***************************************************************************)
(* _run_simple_loop: one action per iteration of the while loop.           *)
(***************************************************************************)
LoopContinues(state) ==
    /\ ~(state.agreed \/ state.failure_reason # NoReason)
    /\ ~(state.current_turn >= state.max_turns)

LoopBreak(s) ==
    /\ sess[s].engine = "loop"
    /\ sess[s].pc = "loop"
    /\ ~LoopContinues(sess[s].state)
    /\ LET state == sess[s].state
       IN  IF state.agreed \/ state.failure_reason # NoReason
           THEN sess' = [sess EXCEPT ![s].pc = "end"]
           ELSE sess' = [sess EXCEPT ![s].pc = "end",
                                     ![s].state.failure_reason = "Max turns exceeded"]
    /\ UNCHANGED <<fsm, last, hist, policy, verdict, decision, built, judgment, traces, runtime, codec, channel, threads>>

\* LoopBuyer taking the buyer's previous offer from the first session
LoopBuyer_remembers_first(s) ==
    /\ sess[s].engine = "loop"
    /\ sess[s].pc = "loop"
    /\ LoopContinues(sess[s].state)
    /\ sess[s].state.whose_turn = "buyer"
    /\ sess' = [sess EXCEPT ![s].state =
                  buyer_node([sess[s].state EXCEPT !.previous_buyer_offer =
                                 sess[1].state.previous_buyer_offer])]
    /\ UNCHANGED <<fsm, last, hist, policy, verdict, decision, built, judgment, traces, runtime, codec, channel, threads>>

LoopBuyer(s) ==
    /\ sess[s].engine = "loop"
    /\ sess[s].pc = "loop"
    /\ LoopContinues(sess[s].state)
    /\ sess[s].state.whose_turn = "buyer"
    /\ sess' = [sess EXCEPT ![s].state = buyer_node(sess[s].state)]
    /\ UNCHANGED <<fsm, last, hist, policy, verdict, decision, built, judgment, traces, runtime, codec, channel, threads>>

LoopSeller(s) ==
    /\ sess[s].engine = "loop"
    /\ sess[s].pc = "loop"
    /\ LoopContinues(sess[s].state)
    /\ sess[s].state.whose_turn # "buyer"
    /\ sess' = [sess EXCEPT ![s].state = seller_node(sess[s].state)]
    /\ UNCHANGED <<fsm, last, hist, policy, verdict, decision, built, judgment, traces, runtime, codec, channel, threads>>

(***************************************************************************)
(* The FSM object as constructed by NegotiationFSM(max_turns).             *)
(***************************************************************************)
NewFSM(max_turns) ==
    [ state |-> "IDLE", turn_count |-> 0, max_turns |-> max_turns,
      agreed_price |-> None, failure_reason |-> NoReason ]

\* last: no method called yet; ret is "True", "False" or "None" (a method returning nothing)
NoCall == [op |-> "__init__", price |-> None, text |-> "", ret |-> "None"]

\* hist.phase: "new" before any call, "started" while the calls so far are one
\* successful start() followed by process_turn() only, "other" after any other call;
\* hist.calls: the number of process_turn() calls while "started"
NoHist == [phase |-> "new", calls |-> 0]

(***************************************************************************)
(* The policy object as constructed by CoordinationPolicy(...); the        *)
(* defaults are 450.0, 350.0, True.                                        *)
(***************************************************************************)
NewPolicy(buyer_max_price, seller_min_price, require_price_progress) ==
    [ buyer_max_price |-> buyer_max_price,
      seller_min_price |-> seller_min_price,
      require_price_progress |-> require_price_progress ]

\* verdict: no method called yet
NoVerdict ==
    [ op |-> "__init__", actor |-> "", expected_actor |-> "", message_type |-> "",
      price |-> None, previous_offer |-> None, previous_counter |-> None,
      is_terminal |-> FALSE, returned |-> FALSE, allowed |-> TRUE, violation |-> "None" ]

\* decision: no strategy called yet.  offer is the opposing price (current_offer
\* of the buyer, buyer_offer of the seller), limit the caller's own (max_price,
\* min_price), previous its previous_offer or previous_counter
NoDecision ==
    [ fn |-> "None", offer |-> None, limit |-> None, asking_price |-> None,
      turn |-> 0, max_turns |-> 0, previous |-> None, mcp_server |-> NoServer,
      returned |-> FALSE, response |-> Response("None", None, None, "") ]

(***************************************************************************)
(* 03_protocol/messages.py: the four payload dataclasses.  A construction  *)
(* gives [raised, value]: whether __post_init__ raised ValueError and, if  *)
(* not, the object; NoMessage stands for no object.                        *)
(***************************************************************************)
NoMessage ==
    [ type |-> "None", price |-> None, original_price |-> None, message |-> "",
      reason |-> "", final_offer |-> None ]

\* Counter validating price only
NewCounter_price_only(price, original_price, message) ==
    IF price <= 0 THEN [raised |-> TRUE, value |-> NoMessage]
    ELSE [raised |-> FALSE,
          value |-> [NoMessage EXCEPT !.type = "counter", !.price = price,
                                      !.original_price = original_price,
                                      !.message = message]]

NewOffer(price, message) ==
    IF price <= 0 THEN [raised |-> TRUE, value |-> NoMessage]
    ELSE [raised |-> FALSE,
          value |-> [NoMessage EXCEPT !.type = "offer", !.price = price,
                                      !.message = message]]

NewCounter(price, original_price, message) ==
    IF price <= 0 THEN [raised |-> TRUE, value |-> NoMessage]
    ELSE IF original_price <= 0 THEN [raised |-> TRUE, value |-> NoMessage]
    ELSE [raised |-> FALSE,
          value |-> [NoMessage EXCEPT !.type = "counter", !.price = price,
                                      !.original_price = original_price,
                                      !.message = message]]

NewAccept(price, message) ==
    IF price <= 0 THEN [raised |-> TRUE, value |-> NoMessage]
    ELSE [raised |-> FALSE,
          value |-> [NoMessage EXCEPT !.type = "accept", !.price = price,
                                      !.message = message]]

NewReject(reason, final_offer) ==
    [raised |-> FALSE,
     value |-> [NoMessage EXCEPT !.type = "reject", !.reason = reason,
                                 !.final_offer = final_offer]]

\* built: nothing constructed yet
NotBuilt ==
    [ cls |-> "None", price |-> None, original_price |-> None, message |-> "",
      reason |-> "", final_offer |-> None,
      returned |-> FALSE, raised |-> FALSE, value |-> NoMessage ]

(***************************************************************************)
(* 03_protocol/messages.py: to_dict and parse_message.  A dict is a        *)
(* function from its keys to their values; data.get(key, default) is Get.  *)
(***************************************************************************)
Get(data, key, default) == IF key \in DOMAIN data THEN data[key] ELSE default

Outcome(raised, value) == [raised |-> raised, value |-> value]

\* to_dict leaving original_price out of a counter's dict
to_dict_without_original_price(msg) ==
    CASE msg.type = "offer" ->
            Outcome("None", [type |-> "offer", price |-> msg.price, message |-> msg.message])
      [] msg.type = "counter" ->
            Outcome("None", [type |-> "counter", price |-> msg.price,
                             message |-> msg.message])
      [] msg.type = "accept" ->
            Outcome("None", [type |-> "accept", price |-> msg.price, message |-> msg.message])
      [] msg.type = "reject" ->
            Outcome("None", [type |-> "reject", reason |-> msg.reason,
                             final_offer |-> msg.final_offer])
      [] OTHER -> Outcome("ValueError", EmptyDict)

to_dict(msg) ==
    CASE msg.type = "offer" ->
            Outcome("None", [type |-> "offer", price |-> msg.price, message |-> msg.message])
      [] msg.type = "counter" ->
            Outcome("None", [type |-> "counter", price |-> msg.price,
                             original_price |-> msg.original_price,
                             message |-> msg.message])
      [] msg.type = "accept" ->
            Outcome("None", [type |-> "accept", price |-> msg.price, message |-> msg.message])
      [] msg.type = "reject" ->
            Outcome("None", [type |-> "reject", reason |-> msg.reason,
                             final_offer |-> msg.final_offer])
      [] OTHER -> Outcome("ValueError", EmptyDict)

\* what a constructor called by parse_message gives back: its ValueError or its message
Constructed(outcome) ==
    IF outcome.raised THEN Outcome("ValueError", NoMessage)
    ELSE Outcome("None", outcome.value)

\* data["price"] raises KeyError when the key is missing
parse_message(data) ==
    LET msg_type == Get(data, "type", "None")
    IN  CASE msg_type = "offer" ->
                IF "price" \notin DOMAIN data THEN Outcome("KeyError", NoMessage)
                ELSE Constructed(NewOffer(data["price"], Get(data, "message", "")))
          [] msg_type = "counter" ->
                IF "price" \notin DOMAIN data THEN Outcome("KeyError", NoMessage)
                ELSE Constructed(NewCounter(data["price"], Get(data, "original_price", 0),
                                            Get(data, "message", "")))
          [] msg_type = "accept" ->
                IF "price" \notin DOMAIN data THEN Outcome("KeyError", NoMessage)
                ELSE Constructed(NewAccept(data["price"], Get(data, "message", "")))
          [] msg_type = "reject" ->
                Constructed(NewReject(Get(data, "reason", "No reason given"),
                                      Get(data, "final_offer", None)))
          [] OTHER -> Outcome("ValueError", NoMessage)

\* codec: origin is "message" for a constructed message that is serialised
\* and parsed back, "dict" for a dict given to parse_message as it is
CodecCall(origin, msg, data) ==
    [ origin |-> origin, pc |-> origin, msg |-> msg, data |-> data,
      raised |-> "None", parsed |-> NoMessage ]

\* codec: nothing to serialise or parse
NoCodec == CodecCall("None", NoMessage, EmptyDict)

(***************************************************************************)
(* 08_transport/channel.py: the A2AChannel object and the threads that     *)
(* call it.  _lock is "unlocked" or the thread that acquired it; a thread  *)
(* has a stack of calls into the channel, the innermost last.              *)
(***************************************************************************)
Agents == {"buyer", "seller"}

Threads == {"T1", "T2"}

\* LocalChannel(): an A2AChannel with BUYER_CARD and SELLER_CARD registered
NewChannel ==
    [ _messages |-> [a \in Agents |-> << >>],
      _tasks |-> EmptyDict,
      _subscribers |-> EmptyDict,
      _lock |-> "unlocked" ]

\* no thread in a call; sent and received list, per agent, the ids of the
\* messages in the order send delivered them and receive returned them
NoThreads ==
    [ stack |-> [t \in Threads |-> << >>],
      sent |-> [a \in Agents |-> << >>],
      received |-> [a \in Agents |-> << >>],
      created |-> 0 ]

(***************************************************************************)
(* 11_evaluation/judge.py: NegotiationJudge.judge_protocol.  The loop over *)
(* the log is the recursion below: issues counts the entries whose agent   *)
(* is not the expected one, and the expected agent flips after every       *)
(* entry.  The score 1.0 - issues / max(len, 1) is the fraction            *)
(* <<numerator, denominator>>.                                             *)
(***************************************************************************)
RECURSIVE judge_issues(_, _, _)
judge_issues(messages, i, expected_agent) ==
    IF i > Len(messages) THEN 0
    ELSE (IF messages[i].agent # expected_agent THEN 1 ELSE 0)
         + judge_issues(messages, i + 1,
                        IF expected_agent = "buyer" THEN "seller" ELSE "buyer")

\* judge_protocol looking at the first entry only
judge_protocol_first_only(messages) ==
    LET issues == IF Len(messages) > 0 /\ messages[1].agent # "buyer" THEN 1 ELSE 0
        len == Max(Len(messages), 1)
    IN  IF issues > 0
        THEN [passed |-> FALSE, score |-> <<len - issues, len>>]
        ELSE [passed |-> TRUE, score |-> <<1, 1>>]

judge_protocol(messages) ==
    LET issues == judge_issues(messages, 1, "buyer")
        len == Max(Len(messages), 1)
    IN  IF issues > 0
        THEN [passed |-> FALSE, score |-> <<len - issues, len>>]
        ELSE [passed |-> TRUE, score |-> <<1, 1>>]

\* judgment: judge_protocol not called yet; produced tells a log of the
\* orchestrator from one written by hand
NoJudgment ==
    [ messages |-> << >>, produced |-> FALSE, returned |-> FALSE,
      passed |-> FALSE, score |-> <<0, 1>> ]

(***************************************************************************)
(* 11_evaluation/tracer.py: NegotiationTracer.  traces is the dict of the  *)
(* tracer, a function from the session ids in use to their                 *)
(* NegotiationTrace; a TraceRecord is its event type and its data, the     *)
(* timestamps (datetime.utcnow()) being left out.                          *)
(***************************************************************************)
TraceIds == {"s1", "s2"}

NoData ==
    [ turn |-> None, agent |-> "", message_type |-> "", price |-> None,
      agreed |-> FALSE, final_price |-> None, turns |-> None, reason |-> NoReason ]

TraceRecord(event_type, data) == [event_type |-> event_type, data |-> data]

\* NegotiationTrace(session_id): no record, not ended
NegotiationTrace(session_id) ==
    [session_id |-> session_id, ended |-> FALSE, records |-> << >>]

add_event(trace, event_type, data) ==
    [trace EXCEPT !.records = Append(trace.records, TraceRecord(event_type, data))]

\* the dict with the key set: d[k] = v
SetItem(d, k, v) == [x \in DOMAIN d \cup {k} |-> IF x = k THEN v ELSE d[x]]

start_trace(t, session_id) ==
    SetItem(t, session_id,
            add_event(NegotiationTrace(session_id), "session_start", NoData))

end_trace(t, session_id) ==
    IF session_id \in DOMAIN t
    THEN [t EXCEPT ![session_id] =
             add_event([t[session_id] EXCEPT !.ended = TRUE], "session_end", NoData)]
    ELSE t

log_turn(t, session_id, turn, agent, message_type, price) ==
    IF session_id \in DOMAIN t
    THEN [t EXCEPT ![session_id] =
             add_event(t[session_id], "turn",
                       [NoData EXCEPT !.turn = turn, !.agent = agent,
                                      !.message_type = message_type, !.price = price])]
    ELSE t

log_outcome(t, session_id, agreed, final_price, turns, reason) ==
    IF session_id \in DOMAIN t
    THEN [t EXCEPT ![session_id] =
             add_event(t[session_id], "outcome",
                       [NoData EXCEPT !.agreed = agreed, !.final_price = final_price,
                                      !.turns = turns, !.reason = reason])]
    ELSE t

\* NegotiationTracer(): no trace
NoTraces == EmptyDict

(***************************************************************************)
(* 10_runtime/runner.py: the Session dataclass and the locals of           *)
(* _run_simple_negotiation.  pc is "call" before the call, "head" at the   *)
(* head of the for loop, "seller" between the two halves of an iteration   *)
(* and "returned" after the return.  The FSM the method constructs and     *)
(* drives is the variable fsm.                                             *)
(***************************************************************************)
Session(buyer_max_price, seller_min_price, seller_asking_price, max_turns) ==
    [ buyer_max_price |-> buyer_max_price,
      seller_min_price |-> seller_min_price,
      seller_asking_price |-> seller_asking_price,
      max_turns |-> max_turns,
      agreed |-> FALSE,
      final_price |-> None,
      turns_taken |-> 0,
      messages |-> << >> ]

NoMsg == Response("None", None, None, "")

RuntimeCall(session) ==
    [ pc |-> "call", session |-> session, turn |-> 0, current_price |-> None,
      previous_offer |-> None, buyer_msg |-> NoMsg ]

\* runtime: no call of _run_simple_negotiation
NoRuntime == [RuntimeCall(Session(None, None, None, 0)) EXCEPT !.pc = "None"]

(***************************************************************************)
(* run_negotiation on one configuration, once with LangGraph available     *)
(* (session 1) and once without (session 2).                               *)
(***************************************************************************)
Init ==
    /\ \E bm \in BuyerMaxValues, sm \in SellerMinValues,
          ask \in AskingValues, mt \in MaxTurnsValues :
          sess = [s \in Sessions |->
                    [ engine |-> IF s = 1 THEN "graph" ELSE "loop",
                      pc |-> IF s = 1 THEN "buyer" ELSE "loop",
                      state |-> initial_state(bm, sm, ask, mt) ]]
    /\ fsm = NewFSM(10)
    /\ last = NoCall
    /\ hist = NoHist
    /\ policy = NewPolicy(450000, 350000, TRUE)
    /\ verdict = NoVerdict
    /\ decision = NoDecision
    /\ built = NotBuilt
    /\ judgment = NoJudgment
    /\ traces = NoTraces
    /\ runtime = NoRuntime
    /\ codec = NoCodec
    /\ channel = NewChannel
    /\ threads = NoThreads

Next ==
    \E s \in Sessions :
        \/ GraphBuyer(s)
        \/ GraphSeller(s)
        \/ LoopBuyer(s)
        \/ LoopSeller(s)
        \/ LoopBreak(s)

Spec == Init /\ [][Next]_vars

LiveSpec == Spec /\ WF_vars(Next)

Done(s) == sess[s].pc = "end"

(***************************************************************************)
(* 04_fsm/state_machine.py: NegotiationFSM.  Each method is an operator    *)
(* from the object (and the arguments) to the object after the call and    *)
(* the value returned.                                                     *)
(***************************************************************************)
FSMStates == {"IDLE", "NEGOTIATING", "AGREED", "FAILED"}

TRANSITIONS ==
    [ IDLE |-> {"NEGOTIATING", "FAILED"},
      NEGOTIATING |-> {"NEGOTIATING", "AGREED", "FAILED"},
      AGREED |-> {},
      FAILED |-> {} ]

is_active(f) == f.state = "NEGOTIATING"

is_terminal(f) == f.state \in {"AGREED", "FAILED"}

can_transition(f, to_state) == to_state \in TRANSITIONS[f.state]

Returns(f, ret) == [fsm |-> f, ret |-> ret]

\* start without its test of IDLE
start_unguarded(f) ==
    Returns([f EXCEPT !.state = "NEGOTIATING"], "True")

start(f) ==
    IF f.state # "IDLE"
    THEN Returns(f, "False")
    ELSE Returns([f EXCEPT !.state = "NEGOTIATING"], "True")

\* record_turn without its is_active test
record_turn_unguarded(f) ==
    Returns([f EXCEPT !.turn_count = f.turn_count + 1], "None")

record_turn(f) ==
    IF is_active(f)
    THEN Returns([f EXCEPT !.turn_count = f.turn_count + 1], "None")
    ELSE Returns(f, "None")

transition_to_agreed(f, final_price) ==
    IF ~is_active(f)
    THEN Returns(f, "False")
    ELSE Returns([f EXCEPT !.state = "AGREED", !.agreed_price = final_price], "True")

\* transition_to_failed without its is_active guard
transition_to_failed_unguarded(f, reason) ==
    Returns([f EXCEPT !.state = "FAILED",
                      !.failure_reason = "REJECTED_BY_BUYER"], "True")

\* the reason argument is not used: the recorded reason is always REJECTED_BY_BUYER
transition_to_failed(f, reason) ==
    IF ~is_active(f)
    THEN Returns(f, "False")
    ELSE Returns([f EXCEPT !.state = "FAILED",
                           !.failure_reason = "REJECTED_BY_BUYER"], "True")

\* process_turn with the turn limit tested by > instead of >=
process_turn_late(f) ==
    IF ~is_active(f)
    THEN Returns(f, "False")
    ELSE LET counted == [f EXCEPT !.turn_count = f.turn_count + 1]
         IN  IF counted.turn_count > counted.max_turns
             THEN Returns([counted EXCEPT !.state = "FAILED",
                                          !.failure_reason = "MAX_TURNS_EXCEEDED"], "False")
             ELSE Returns(counted, "True")

process_turn(f) ==
    IF ~is_active(f)
    THEN Returns(f, "False")
    ELSE LET counted == [f EXCEPT !.turn_count = f.turn_count + 1]
         IN  IF counted.turn_count >= counted.max_turns
             THEN Returns([counted EXCEPT !.state = "FAILED",
                                          !.failure_reason = "MAX_TURNS_EXCEEDED"], "False")
             ELSE Returns(counted, "True")

\* accept without its is_active test
accept_unguarded(f, price) ==
    Returns([f EXCEPT !.state = "AGREED", !.agreed_price = price], "True")

accept(f, price) ==
    IF ~is_active(f)
    THEN Returns(f, "False")
    ELSE Returns([f EXCEPT !.state = "AGREED", !.agreed_price = price], "True")

reject(f, reason, by_buyer) ==
    IF ~is_active(f)
    THEN Returns(f, "False")
    ELSE Returns([f EXCEPT !.state = "FAILED",
                           !.failure_reason = IF by_buyer THEN "REJECTED_BY_BUYER"
                                              ELSE "REJECTED_BY_SELLER"], "True")

\* check_invariants() returns True when none of its assertions fails
check_invariants(f) ==
    /\ f.turn_count >= 0
    /\ f.state = "AGREED" => f.agreed_price # None
    /\ f.state = "FAILED" => f.failure_reason # NoReason

(***************************************************************************)
(* A caller of the FSM: any public method, in any order, with any          *)
(* argument its signature admits.                                          *)
(***************************************************************************)
PriceArgs == {400000, 500000}
ReasonArgs == {"Too expensive", "Seller rejected", "timeout"}

Called(op, price, text, r) ==
    /\ fsm' = r.fsm
    /\ last' = [op |-> op, price |-> price, text |-> text, ret |-> r.ret]

Start ==
    /\ Called("start", None, "", start(fsm))
    /\ hist' = IF hist.phase = "new" /\ fsm.state = "IDLE"
               THEN [phase |-> "started", calls |-> 0]
               ELSE [phase |-> "other", calls |-> 0]
    /\ UNCHANGED <<sess, policy, verdict, decision, built, judgment, traces, runtime, codec, channel, threads>>

RecordTurn ==
    /\ is_active(fsm) => fsm.turn_count < MaxRecorded
    /\ Called("record_turn", None, "", record_turn(fsm))
    /\ hist' = [phase |-> "other", calls |-> 0]
    /\ UNCHANGED <<sess, policy, verdict, decision, built, judgment, traces, runtime, codec, channel, threads>>

\* final_price defaults to None
TransitionToAgreed ==
    /\ \E final_price \in PriceArgs \cup {None} :
          Called("transition_to_agreed", final_price, "", transition_to_agreed(fsm, final_price))
    /\ hist' = [phase |-> "other", calls |-> 0]
    /\ UNCHANGED <<sess, policy, verdict, decision, built, judgment, traces, runtime, codec, channel, threads>>

TransitionToFailed ==
    /\ \E reason \in ReasonArgs :
          Called("transition_to_failed", None, reason, transition_to_failed(fsm, reason))
    /\ hist' = [phase |-> "other", calls |-> 0]
    /\ UNCHANGED <<sess, policy, verdict, decision, built, judgment, traces, runtime, codec, channel, threads>>

ProcessTurn ==
    /\ hist.calls < MaxRecorded
    /\ Called("process_turn", None, "", process_turn(fsm))
    /\ hist' = IF hist.phase = "started"
               THEN [hist EXCEPT !.calls = hist.calls + 1]
               ELSE [phase |-> "other", calls |-> 0]
    /\ UNCHANGED <<sess, policy, verdict, decision, built, judgment, traces, runtime, codec, channel, threads>>

Accept ==
    /\ \E price \in PriceArgs :
          Called("accept", price, "", accept(fsm, price))
    /\ hist' = [phase |-> "other", calls |-> 0]
    /\ UNCHANGED <<sess, policy, verdict, decision, built, judgment, traces, runtime, codec, channel, threads>>

Reject ==
    /\ \E reason \in ReasonArgs, by_buyer \in BOOLEAN :
          Called("reject", None, reason, reject(fsm, reason, by_buyer))
    /\ hist' = [phase |-> "other", calls |-> 0]
    /\ UNCHANGED <<sess, policy, verdict, decision, built, judgment, traces, runtime, codec, channel, threads>>

FSMInit ==
    /\ \E mt \in MaxTurnsValues : fsm = NewFSM(mt)
    /\ last = NoCall
    /\ hist = NoHist
    /\ sess = << >>
    /\ policy = NewPolicy(450000, 350000, TRUE)
    /\ verdict = NoVerdict
    /\ decision = NoDecision
    /\ built = NotBuilt
    /\ judgment = NoJudgment
    /\ traces = NoTraces
    /\ runtime = NoRuntime
    /\ codec = NoCodec
    /\ channel = NewChannel
    /\ threads = NoThreads

FSMNext ==
    \/ Start
    \/ RecordTurn
    \/ TransitionToAgreed
    \/ TransitionToFailed
    \/ ProcessTurn
    \/ Accept
    \/ Reject

FSMSpec == FSMInit /\ [][FSMNext]_vars

(***************************************************************************)
(* Properties of the orchestrated runs (Spec, LiveSpec).                   *)
(***************************************************************************)
Entries(state, agent) ==
    {i \in DOMAIN state.messages : state.messages[i].agent = agent}

EntriesOfType(state, type) ==
    {i \in DOMAIN state.messages : state.messages[i].message.type = type}

\* the run ended because the turns ran out, not by an accept or a reject
Exhausted(state) ==
    /\ ~state.agreed
    /\ state.current_turn = state.max_turns
    /\ EntriesOfType(state, "reject") = {}

C1_Bounded ==
    \A s \in Sessions :
        LET state == sess[s].state
        IN  /\ Cardinality(Entries(state, "buyer")) <= state.max_turns
            /\ Cardinality(Entries(state, "seller")) <= state.max_turns
            /\ state.current_turn <= state.max_turns
            /\ Done(s) =>
                  \/ Result(state).agreed /\ Result(state).final_price # None
                  \/ ~Result(state).agreed /\ Result(state).final_price = None

C2_RangeValid ==
    \A s \in Sessions :
        LET state == sess[s].state
        IN  (Done(s) /\ Result(state).agreed
                /\ state.seller_min_price <= state.buyer_max_price)
            => /\ state.seller_min_price <= Result(state).final_price
               /\ Result(state).final_price <= state.buyer_max_price

\* C3: with seller_min_price > buyer_max_price no run reaches agreed = True.
C3_NoZopaNeverAgreed ==
    \A s \in Sessions :
        sess[s].state.seller_min_price > sess[s].state.buyer_max_price
        => ~sess[s].state.agreed

\* C4: in the message log of a run the successive buyer offers never decrease
\* and the successive seller counters never increase.
C4_MonotonicConcession ==
    \A s \in Sessions :
        LET log == sess[s].state.messages
        IN  \A i, j \in DOMAIN log :
                i < j =>
                   /\ (log[i].message.type = "offer" /\ log[j].message.type = "offer")
                        => log[i].message.price <= log[j].message.price
                   /\ (log[i].message.type = "counter" /\ log[j].message.type = "counter")
                        => log[i].message.price >= log[j].message.price

C6_TurnsAreRounds ==
    \A s \in Sessions :
        Result(sess[s].state).turns = Cardinality(Entries(sess[s].state, "seller"))

C6_NodeEffect ==
    \A s \in Sessions :
        LET before == sess[s].state
            after == sess'[s].state
            n == Len(after.messages)
        IN  IF n = Len(before.messages)
            THEN after.current_turn = before.current_turn
            ELSE /\ n = Len(before.messages) + 1
                 /\ after.messages[n].agent = "buyer"
                       => after.current_turn = before.current_turn
                 /\ after.messages[n].agent = "seller"
                       => after.current_turn = before.current_turn + 1

\* C6: the turns value run_negotiation returns is the number of seller entries
\* in the log (completed buyer+seller rounds), not the number of messages: a
\* buyer step leaves current_turn alone and a seller step adds exactly one.
C6_TurnAccounting == []C6_TurnsAreRounds /\ [][C6_NodeEffect]_vars

C6_Witness ==
    \E s \in Sessions :
        /\ Done(s)
        /\ Result(sess[s].state).turns = 2
        /\ Len(Result(sess[s].state).messages) = 5

\* C7: for the same inputs the graph engine and _run_simple_loop end with the
\* same agreed flag, final price, failure reason, turn count and message log.
C7_SameOutcome ==
    (Done(1) /\ Done(2)) =>
        /\ sess[1].state.agreed = sess[2].state.agreed
        /\ sess[1].state.final_price = sess[2].state.final_price
        /\ sess[1].state.failure_reason = sess[2].state.failure_reason
        /\ sess[1].state.current_turn = sess[2].state.current_turn
        /\ sess[1].state.messages = sess[2].state.messages

(***************************************************************************)
(* Properties of the FSM under any caller (FSMSpec).                       *)
(***************************************************************************)
C5_Frozen ==
    is_terminal(fsm) =>
        /\ fsm' = fsm
        /\ last'.ret = IF last'.op = "record_turn" THEN "None" ELSE "False"
        /\ \A to_state \in FSMStates : ~can_transition(fsm, to_state)

\* C5: once the FSM is AGREED or FAILED every later call reports failure
\* (record_turn returns nothing) and changes none of state, turn_count,
\* agreed_price, failure_reason; can_transition is false for every target.
C5_TerminalIsFrozen == [][C5_Frozen]_vars

C5_Witness ==
    /\ fsm.state = "AGREED"
    /\ last.op = "transition_to_failed"
    /\ last.ret = "False"
    /\ fsm.turn_count >= 1

\* C8: turn_count <= max_turns always, and a NEGOTIATING FSM has
\* turn_count < max_turns, whichever public methods are called.
C8_TurnsBounded ==
    /\ fsm.turn_count <= fsm.max_turns
    /\ fsm.state = "NEGOTIATING" => fsm.turn_count < fsm.max_turns

\* C9: after start(), with only process_turn called on an FSM with
\* max_turns = N: calls 1..N-1 return True and leave it NEGOTIATING, call N
\* returns False and leaves it FAILED with MAX_TURNS_EXCEEDED, and it is
\* terminal from then on.
C9_ProcessTurnCountdown ==
    hist.phase = "started" =>
        LET k == hist.calls
            N == fsm.max_turns
        IN  /\ k = 0 => fsm.state = "NEGOTIATING"
            /\ (1 <= k /\ k < N) =>
                  /\ last.op = "process_turn"
                  /\ last.ret = "True"
                  /\ fsm.state = "NEGOTIATING"
            /\ k = N =>
                  /\ last.op = "process_turn"
                  /\ last.ret = "False"
                  /\ fsm.state = "FAILED"
                  /\ fsm.failure_reason = "MAX_TURNS_EXCEEDED"
            /\ k > N =>
                  /\ last.ret = "False"
                  /\ fsm.state = "FAILED"
                  /\ fsm.turn_count = N

C9_Witness ==
    /\ hist.phase = "started"
    /\ fsm.max_turns >= 3
    /\ hist.calls = fsm.max_turns
    /\ fsm.state = "FAILED"

\* C10: check_invariants() succeeds in every reachable state of the FSM.
C10_InvariantsHold == check_invariants(fsm)

(***************************************************************************)
(* Failure reasons and terminal outcomes.                                  *)
(***************************************************************************)
\* the FailureReason a caller's reason text stands for
ReasonKind(text) ==
    CASE text = "Seller rejected" -> "REJECTED_BY_SELLER"
      [] text = "timeout" -> "MAX_TURNS_EXCEEDED"
      [] OTHER -> "REJECTED_BY_BUYER"

\* C11: transition_to_failed(reason), called while NEGOTIATING, leaves the FSM
\* FAILED with the failure reason that the caller's reason stands for.
C11_RecordsSuppliedReason ==
    (last.op = "transition_to_failed" /\ last.ret = "True")
    => /\ fsm.state = "FAILED"
       /\ fsm.failure_reason = ReasonKind(last.text)

FailureKinds == {"Buyer rejected", "Seller rejected", "Max turns exceeded"}

\* C12: under either engine a run that ends without agreement carries a
\* failure reason, one of the fixed kinds.
C12_FailureHasReason ==
    \A s \in Sessions :
        (Done(s) /\ ~sess[s].state.agreed)
        => sess[s].state.failure_reason \in FailureKinds

LastEntry(state) == state.messages[Len(state.messages)]

Closed(state) ==
    /\ state.messages # << >>
    /\ LastEntry(state).message.type \in {"accept", "reject"}

C13_ClosingEntryIsLast ==
    \A s \in Sessions :
        \A i \in DOMAIN sess[s].state.messages :
            sess[s].state.messages[i].message.type \in {"accept", "reject"}
            => i = Len(sess[s].state.messages)

C13_NothingAfterClosing ==
    \A s \in Sessions :
        Closed(sess[s].state) =>
            /\ sess'[s].state.messages = sess[s].state.messages
            /\ sess'[s].state.agreed = sess[s].state.agreed
            /\ sess'[s].state.final_price = sess[s].state.final_price
            /\ sess'[s].state.current_turn = sess[s].state.current_turn
            /\ sess'[s].state.previous_buyer_offer = sess[s].state.previous_buyer_offer
            /\ sess'[s].state.previous_seller_counter = sess[s].state.previous_seller_counter

\* C13: once a node has produced an accept or a reject no node runs again,
\* even if turns remain: that entry stays the last of the log, and agreed,
\* final_price, current_turn and the previous prices no longer change.
C13_StopsAtClosing == []C13_ClosingEntryIsLast /\ [][C13_NothingAfterClosing]_vars

C13_Witness ==
    \A s \in Sessions :
        /\ Done(s)
        /\ LastEntry(sess[s].state).message.type = "accept"
        /\ LastEntry(sess[s].state).agent = "seller"
        /\ sess[s].state.current_turn + 2 <= sess[s].state.max_turns

(***************************************************************************)
(* The concrete scenarios.                                                 *)
(***************************************************************************)
IsConfig(state, buyer_max_price, seller_min_price, seller_asking_price, max_turns) ==
    /\ state.buyer_max_price = buyer_max_price
    /\ state.seller_min_price = seller_min_price
    /\ state.seller_asking_price = seller_asking_price
    /\ state.max_turns = max_turns

C15_Scenario3AgreesAt350 ==
    \A s \in Sessions :
        (Done(s) /\ IsConfig(sess[s].state, 350000, 350000, 400000, 10))
        => /\ Result(sess[s].state).agreed
           /\ Result(sess[s].state).final_price = 350000

C15_Witness ==
    \A s \in Sessions :
        /\ Done(s)
        /\ IsConfig(sess[s].state, 350000, 350000, 400000, 10)

(***************************************************************************)
(* The FSM before and at start().                                          *)
(***************************************************************************)
C16_StartStep ==
    last'.op = "start" =>
        IF fsm.state = "IDLE"
        THEN /\ last'.ret = "True"
             /\ fsm' = [fsm EXCEPT !.state = "NEGOTIATING"]
             /\ fsm'.turn_count = 0
        ELSE /\ last'.ret = "False"
             /\ fsm' = fsm

\* C16: start() returns True and moves to NEGOTIATING, turn_count still 0,
\* from IDLE; from any other state it returns False and changes nothing.
C16_StartOnlyFromIdle == [][C16_StartStep]_vars

C16_Witness ==
    /\ last.op = "start"
    /\ last.ret = "False"
    /\ fsm.state = "NEGOTIATING"
    /\ fsm.turn_count >= 1

C17_IdleStep ==
    (fsm.state = "IDLE" /\ last'.op # "start") =>
        /\ fsm' = fsm
        /\ fsm = NewFSM(fsm.max_turns)
        /\ last'.ret = IF last'.op = "record_turn" THEN "None" ELSE "False"

\* C17: on an FSM still IDLE, transition_to_agreed, transition_to_failed,
\* accept, reject and process_turn return False and record_turn does nothing:
\* the state stays IDLE and turn_count, agreed_price and failure_reason keep
\* their initial values.
C17_IdleRefusesAll == [][C17_IdleStep]_vars

C17_Witness ==
    /\ fsm.state = "IDLE"
    /\ last.op = "transition_to_agreed"
    /\ last.price = 400000
    /\ last.ret = "False"

(***************************************************************************)
(* 07_coordination/policy.py: CoordinationPolicy.  A PolicyResult is its   *)
(* allowed flag and its violation ("None" when allowed); the reason text   *)
(* is a formatting of the same arguments and is left out.                  *)
(***************************************************************************)
PolicyResult(allowed, violation) == [allowed |-> allowed, violation |-> violation]

\* validate_turn comparing the actors before looking at terminal
validate_turn_actor_first(p, actor, expected_actor, terminal) ==
    IF actor # expected_actor THEN PolicyResult(FALSE, "WRONG_TURN")
    ELSE IF terminal THEN PolicyResult(FALSE, "NEGOTIATION_ENDED")
    ELSE PolicyResult(TRUE, "None")

validate_turn(p, actor, expected_actor, terminal) ==
    IF terminal THEN PolicyResult(FALSE, "NEGOTIATION_ENDED")
    ELSE IF actor # expected_actor THEN PolicyResult(FALSE, "WRONG_TURN")
    ELSE PolicyResult(TRUE, "None")

\* validate_buyer_offer refusing a price equal to the maximum
validate_buyer_offer_strict(p, price, previous_offer) ==
    IF price >= p.buyer_max_price
    THEN PolicyResult(FALSE, "ABOVE_MAXIMUM")
    ELSE IF p.require_price_progress /\ previous_offer # None /\ price < previous_offer
    THEN PolicyResult(FALSE, "PRICE_DECREASED")
    ELSE PolicyResult(TRUE, "None")

validate_buyer_offer(p, price, previous_offer) ==
    IF price > p.buyer_max_price
    THEN PolicyResult(FALSE, "ABOVE_MAXIMUM")
    ELSE IF p.require_price_progress /\ previous_offer # None /\ price < previous_offer
    THEN PolicyResult(FALSE, "PRICE_DECREASED")
    ELSE PolicyResult(TRUE, "None")

\* validate_seller_counter testing the direction before the minimum
validate_seller_counter_progress_first(p, price, previous_counter) ==
    IF p.require_price_progress /\ previous_counter # None /\ price > previous_counter
    THEN PolicyResult(FALSE, "PRICE_INCREASED")
    ELSE IF price < p.seller_min_price
    THEN PolicyResult(FALSE, "BELOW_MINIMUM")
    ELSE PolicyResult(TRUE, "None")

validate_seller_counter(p, price, previous_counter) ==
    IF price < p.seller_min_price
    THEN PolicyResult(FALSE, "BELOW_MINIMUM")
    ELSE IF p.require_price_progress /\ previous_counter # None /\ price > previous_counter
    THEN PolicyResult(FALSE, "PRICE_INCREASED")
    ELSE PolicyResult(TRUE, "None")

validate_action(p, actor, expected_actor, message_type, price, previous_offer, previous_counter, terminal) ==
    LET result == validate_turn(p, actor, expected_actor, terminal)
    IN  IF ~result.allowed THEN result
        ELSE IF message_type = "offer" /\ actor = "buyer" /\ price # None
        THEN validate_buyer_offer(p, price, previous_offer)
        ELSE IF message_type = "counter" /\ actor = "seller" /\ price # None
        THEN validate_seller_counter(p, price, previous_counter)
        ELSE PolicyResult(TRUE, "None")

(***************************************************************************)
(* A caller of the policy: one call of one validator, with arguments drawn *)
(* from the sets below; verdict holds the call, then its result.           *)
(***************************************************************************)
Actors == {"buyer", "seller"}
MessageTypes == {"offer", "counter", "accept", "reject"}
PolicyPrices == {300000, 350000, 400000, 450000, 500000}
PolicyMaxValues == {400000, 450000}
PolicyMinValues == {350000, 400000}

Call(op, actor, expected_actor, message_type, price, previous_offer, previous_counter, terminal) ==
    [ op |-> op, actor |-> actor, expected_actor |-> expected_actor,
      message_type |-> message_type, price |-> price,
      previous_offer |-> previous_offer, previous_counter |-> previous_counter,
      is_terminal |-> terminal, returned |-> FALSE, allowed |-> TRUE,
      violation |-> "None" ]

PolicyCalls ==
    {Call("validate_turn", a, e, "", None, None, None, t) :
        a \in Actors, e \in Actors, t \in BOOLEAN}
    \cup {Call("validate_buyer_offer", "", "", "", x, po, None, FALSE) :
        x \in PolicyPrices, po \in PolicyPrices \cup {None}}
    \cup {Call("validate_seller_counter", "", "", "", x, None, pc, FALSE) :
        x \in PolicyPrices, pc \in PolicyPrices \cup {None}}
    \cup {Call("validate_action", a, e, m, x, po, pc, t) :
        a \in Actors, e \in Actors, m \in MessageTypes,
        x \in PolicyPrices \cup {None}, po \in PolicyPrices \cup {None},
        pc \in PolicyPrices \cup {None}, t \in BOOLEAN}

Return(result) ==
    verdict' = [verdict EXCEPT !.returned = TRUE,
                               !.allowed = result.allowed,
                               !.violation = result.violation]

ValidateTurn ==
    /\ verdict.op = "validate_turn" /\ ~verdict.returned
    /\ Return(validate_turn(policy, verdict.actor, verdict.expected_actor,
                            verdict.is_terminal))
    /\ UNCHANGED <<sess, fsm, last, hist, policy, decision, built, judgment, traces, runtime, codec, channel, threads>>

ValidateBuyerOffer ==
    /\ verdict.op = "validate_buyer_offer" /\ ~verdict.returned
    /\ Return(validate_buyer_offer(policy, verdict.price, verdict.previous_offer))
    /\ UNCHANGED <<sess, fsm, last, hist, policy, decision, built, judgment, traces, runtime, codec, channel, threads>>

ValidateSellerCounter ==
    /\ verdict.op = "validate_seller_counter" /\ ~verdict.returned
    /\ Return(validate_seller_counter(policy, verdict.price, verdict.previous_counter))
    /\ UNCHANGED <<sess, fsm, last, hist, policy, decision, built, judgment, traces, runtime, codec, channel, threads>>

ValidateAction ==
    /\ verdict.op = "validate_action" /\ ~verdict.returned
    /\ Return(validate_action(policy, verdict.actor, verdict.expected_actor,
                              verdict.message_type, verdict.price,
                              verdict.previous_offer, verdict.previous_counter,
                              verdict.is_terminal))
    /\ UNCHANGED <<sess, fsm, last, hist, policy, decision, built, judgment, traces, runtime, codec, channel, threads>>

PolicyInit ==
    /\ \E bm \in PolicyMaxValues, sm \in PolicyMinValues, rp \in BOOLEAN :
          policy = NewPolicy(bm, sm, rp)
    /\ verdict \in PolicyCalls
    /\ sess = << >>
    /\ fsm = NewFSM(10)
    /\ last = NoCall
    /\ hist = NoHist
    /\ decision = NoDecision
    /\ built = NotBuilt
    /\ judgment = NoJudgment
    /\ traces = NoTraces
    /\ runtime = NoRuntime
    /\ codec = NoCodec
    /\ channel = NewChannel
    /\ threads = NoThreads

PolicyNext ==
    \/ ValidateTurn
    \/ ValidateBuyerOffer
    \/ ValidateSellerCounter
    \/ ValidateAction

PolicySpec == PolicyInit /\ [][PolicyNext]_vars

(***************************************************************************)
(* Properties of the policy validators (PolicySpec).                       *)
(***************************************************************************)
Returned(op) == verdict.returned /\ verdict.op = op

AboveMaximum(price) == price > policy.buyer_max_price

Decreased(price, previous_offer) ==
    policy.require_price_progress /\ previous_offer # None /\ price < previous_offer

BelowMinimum(price) == price < policy.seller_min_price

Increased(price, previous_counter) ==
    policy.require_price_progress /\ previous_counter # None /\ price > previous_counter

\* C18: validate_buyer_offer gives ABOVE_MAXIMUM iff price > buyer_max_price;
\* otherwise PRICE_DECREASED iff progress is required, a previous offer is
\* given and price is below it; otherwise it allows.  A price equal to the
\* maximum, or to the previous offer, is allowed.
C18_BuyerOfferVerdict ==
    Returned("validate_buyer_offer") =>
        LET above == AboveMaximum(verdict.price)
            decreased == Decreased(verdict.price, verdict.previous_offer)
        IN  /\ verdict.violation = "ABOVE_MAXIMUM" <=> above
            /\ verdict.violation = "PRICE_DECREASED" <=> (~above /\ decreased)
            /\ verdict.violation = "None" <=> (~above /\ ~decreased)
            /\ verdict.allowed <=> verdict.violation = "None"
            /\ (verdict.price = policy.buyer_max_price
                  /\ verdict.previous_offer \in {None, verdict.price}) => verdict.allowed

C18_Witness ==
    /\ Returned("validate_buyer_offer")
    /\ policy.require_price_progress
    /\ verdict.price > policy.buyer_max_price
    /\ verdict.previous_offer > verdict.price
    /\ verdict.violation = "ABOVE_MAXIMUM"

\* C19: validate_seller_counter gives BELOW_MINIMUM iff price <
\* seller_min_price; otherwise PRICE_INCREASED iff progress is required, a
\* previous counter is given and price is above it; otherwise it allows.  A
\* price equal to the minimum, or to the previous counter, is allowed.
C19_SellerCounterVerdict ==
    Returned("validate_seller_counter") =>
        LET below == BelowMinimum(verdict.price)
            increased == Increased(verdict.price, verdict.previous_counter)
        IN  /\ verdict.violation = "BELOW_MINIMUM" <=> below
            /\ verdict.violation = "PRICE_INCREASED" <=> (~below /\ increased)
            /\ verdict.violation = "None" <=> (~below /\ ~increased)
            /\ verdict.allowed <=> verdict.violation = "None"
            /\ (verdict.price = policy.seller_min_price
                  /\ verdict.previous_counter \in {None, verdict.price}) => verdict.allowed

C19_Witness ==
    /\ Returned("validate_seller_counter")
    /\ policy.require_price_progress
    /\ verdict.price < policy.seller_min_price
    /\ verdict.previous_counter # None
    /\ verdict.previous_counter < verdict.price
    /\ verdict.violation = "BELOW_MINIMUM"

PriceViolations ==
    {"ABOVE_MAXIMUM", "PRICE_DECREASED", "BELOW_MINIMUM", "PRICE_INCREASED"}

\* C20: validate_action gives NEGOTIATION_ENDED if is_terminal, whoever the
\* actor; else WRONG_TURN if actor # expected_actor; else, for a buyer's
\* offer, what the buyer's price check gives and, for a seller's counter,
\* what the seller's gives; a price violation is never reported for an action
\* that fails the turn check.
C20_ActionVerdict ==
    Returned("validate_action") =>
        LET turn_ok == ~verdict.is_terminal /\ verdict.actor = verdict.expected_actor
        IN  /\ verdict.is_terminal => verdict.violation = "NEGOTIATION_ENDED"
            /\ (~verdict.is_terminal /\ verdict.actor # verdict.expected_actor)
                  => verdict.violation = "WRONG_TURN"
            /\ ~turn_ok => ~verdict.allowed
            /\ (turn_ok /\ verdict.message_type = "offer" /\ verdict.actor = "buyer"
                  /\ verdict.price # None)
                  => verdict.violation =
                        IF AboveMaximum(verdict.price) THEN "ABOVE_MAXIMUM"
                        ELSE IF Decreased(verdict.price, verdict.previous_offer)
                        THEN "PRICE_DECREASED" ELSE "None"
            /\ (turn_ok /\ verdict.message_type = "counter" /\ verdict.actor = "seller"
                  /\ verdict.price # None)
                  => verdict.violation =
                        IF BelowMinimum(verdict.price) THEN "BELOW_MINIMUM"
                        ELSE IF Increased(verdict.price, verdict.previous_counter)
                        THEN "PRICE_INCREASED" ELSE "None"
            /\ verdict.violation \in PriceViolations => turn_ok
            /\ verdict.allowed <=> verdict.violation = "None"

C20_Witness ==
    /\ Returned("validate_action")
    /\ verdict.is_terminal
    /\ verdict.actor = "buyer"
    /\ verdict.expected_actor = "seller"
    /\ verdict.message_type = "offer"
    /\ verdict.price # None
    /\ verdict.price > policy.buyer_max_price
    /\ verdict.violation = "NEGOTIATION_ENDED"

(***************************************************************************)
(* A caller of the two strategies: one call of buyer_strategy or of        *)
(* seller_strategy, with arguments drawn from the sets below; decision     *)
(* holds the call, then its response.                                      *)
(***************************************************************************)
LimitValues == {9, 100004, 100006, 350000, 450000}

OpposingPrices ==
    {5, 9, 10, 80000, 100000, 100004, 100006, 100010, 270000, 280000,
     350000, 427500, 450000, 500000}

PreviousValues == {None, 100000, 395830, 400000, 420000, 500000}

StrategyAsking == {150000, 500000}

StrategyTurns == 0..3

StrategyMaxTurns == 1..4

Servers ==
    { NoServer,
      MCPServer([k \in {"enterprise-license"} |-> 350000]),
      MCPServer([k \in {"enterprise-license"} |-> 100004]),
      MCPServer([k \in {"basic-license"} |-> 350000]),
      StubServer(EmptyDict),
      StubServer([k \in {"min_price"} |-> 300000]),
      StubServer([k \in {"effective_min"} |-> 300000]),
      StubServer([k \in {"effective_min"} |-> None]) }

StrategyCall(fn, offer, limit, asking_price, turn, max_turns, previous, mcp_server) ==
    [ fn |-> fn, offer |-> offer, limit |-> limit, asking_price |-> asking_price,
      turn |-> turn, max_turns |-> max_turns, previous |-> previous,
      mcp_server |-> mcp_server,
      returned |-> FALSE, response |-> Response("None", None, None, "") ]

Decide(response) ==
    decision' = [decision EXCEPT !.returned = TRUE, !.response = response]

BuyerDecides ==
    /\ decision.fn = "buyer_strategy"
    /\ ~decision.returned
    /\ Decide(buyer_strategy(decision.offer, decision.limit, decision.turn,
                             decision.max_turns, decision.previous))
    /\ UNCHANGED <<sess, fsm, last, hist, policy, verdict, built, judgment, traces, runtime, codec, channel, threads>>

SellerDecides ==
    /\ decision.fn = "seller_strategy"
    /\ ~decision.returned
    /\ Decide(seller_strategy(decision.offer, decision.limit, decision.asking_price,
                              decision.turn, decision.max_turns, decision.previous,
                              decision.mcp_server))
    /\ UNCHANGED <<sess, fsm, last, hist, policy, verdict, built, judgment, traces, runtime, codec, channel, threads>>

StrategyInit ==
    /\ \E o \in OpposingPrices, l \in LimitValues, t \in StrategyTurns,
          mt \in StrategyMaxTurns, pv \in PreviousValues :
          \/ decision = StrategyCall("buyer_strategy", o, l, None, t, mt, pv, NoServer)
          \/ \E a \in StrategyAsking, m \in Servers :
                decision = StrategyCall("seller_strategy", o, l, a, t, mt, pv, m)
    /\ sess = << >>
    /\ fsm = NewFSM(10)
    /\ last = NoCall
    /\ hist = NoHist
    /\ policy = NewPolicy(450000, 350000, TRUE)
    /\ verdict = NoVerdict
    /\ built = NotBuilt
    /\ judgment = NoJudgment
    /\ traces = NoTraces
    /\ runtime = NoRuntime
    /\ codec = NoCodec
    /\ channel = NewChannel
    /\ threads = NoThreads

StrategyNext ==
    \/ BuyerDecides
    \/ SellerDecides

StrategySpec == StrategyInit /\ [][StrategyNext]_vars

(***************************************************************************)
(* Properties of the two strategies (StrategySpec).                        *)
(***************************************************************************)
Decided(fn) == decision.returned /\ decision.fn = fn

\* the seller's effective minimum in the call held by decision
EffectiveMin == effective_minimum(decision.limit, decision.mcp_server)

\* C21: buyer_strategy returns accept iff current_offer <= max_price, and
\* then with price = current_offer; seller_strategy (with an effective
\* minimum that is a number) returns accept iff buyer_offer >= the effective
\* minimum, and then with price = buyer_offer; this holds on every turn,
\* the final ones included.
C21_AcceptsWithinLimit ==
    /\ Decided("buyer_strategy") =>
          /\ decision.response.type = "accept" <=> decision.offer <= decision.limit
          /\ decision.response.type = "accept" => decision.response.price = decision.offer
    /\ (Decided("seller_strategy") /\ EffectiveMin # None) =>
          /\ decision.response.type = "accept" <=> decision.offer >= EffectiveMin
          /\ decision.response.type = "accept" => decision.response.price = decision.offer

C21_Witness ==
    /\ Decided("buyer_strategy")
    /\ decision.offer = decision.limit
    /\ decision.turn >= decision.max_turns - 1
    /\ decision.response.type = "accept"
    /\ decision.response.price = decision.offer

\* C22: every offer of buyer_strategy has price <= max_price and every
\* counter of seller_strategy has price >= the effective minimum.
C22_WithinOwnLimit ==
    /\ (Decided("buyer_strategy") /\ decision.response.type = "offer")
          => decision.response.price <= decision.limit
    /\ (Decided("seller_strategy") /\ decision.response.type = "counter")
          => decision.response.price >= EffectiveMin

\* the buyer's next offer before rounding, in hundredths of a thousandth
Computed ==
    Min(IF decision.previous = None THEN decision.limit * 60
        ELSE decision.previous * 108, decision.limit * 100)

FinalTurn == decision.turn >= decision.max_turns - 1

\* C23 as stated: a buyer that does not accept offers max_price if it is the
\* final turn and the computed offer (0.60 x max_price, or previous_offer x
\* 1.08, clamped to max_price) is >= 0.95 x max_price, and the computed offer
\* itself otherwise.
C23_OfferIsComputed ==
    (Decided("buyer_strategy") /\ decision.offer > decision.limit) =>
        /\ decision.response.type = "offer"
        /\ decision.response.price * 100 =
              IF FinalTurn /\ Computed >= decision.limit * 95
              THEN decision.limit * 100 ELSE Computed

\* C23 amended: the computed offer is rounded to two decimals after the
\* clamp; the final-turn test compares the rounded offer with 0.95 x
\* max_price, and the offer returned otherwise is the rounded one.
C23_OfferIsRounded ==
    (Decided("buyer_strategy") /\ decision.offer > decision.limit) =>
        LET rounded == Round2(Computed, 100)
        IN  /\ decision.response.type = "offer"
            /\ decision.response.price =
                  IF FinalTurn /\ rounded * 100 >= decision.limit * 95
                  THEN decision.limit ELSE rounded

\* a final turn where only the rounded offer reaches 0.95 x max_price
C23_Witness ==
    /\ Decided("buyer_strategy")
    /\ decision.offer > decision.limit
    /\ FinalTurn
    /\ Computed < decision.limit * 95
    /\ decision.response.price = decision.limit

\* C24: a seller that does not accept returns, when turn >= max_turns - 2,
\* a reject iff buyer_offer < 0.80 x the effective minimum and a counter
\* otherwise; when turn < max_turns - 2 it returns a counter.
C24_RejectsOnlyNearEnd ==
    (Decided("seller_strategy") /\ EffectiveMin # None /\ decision.offer < EffectiveMin) =>
        LET far == decision.offer * 10 < EffectiveMin * 8
            near_end == decision.turn >= decision.max_turns - 2
        IN  /\ decision.response.type = "reject" <=> (near_end /\ far)
            /\ decision.response.type = "counter" <=> ~(near_end /\ far)

C24_Witness ==
    /\ Decided("seller_strategy")
    /\ decision.turn = decision.max_turns - 2
    /\ decision.offer = 270000
    /\ EffectiveMin = 350000
    /\ decision.response.type = "reject"

\* the provider of the call fails: its get_pricing_rules raises, or answers
\* without an effective_min
ProviderFails ==
    /\ decision.mcp_server.kind # "None"
    /\ LET pricing == get_pricing_rules(decision.mcp_server, "enterprise-license")
       IN  pricing.raised \/ "effective_min" \notin DOMAIN pricing.rules

\* C25: when the provider's get_pricing_rules raises, or its answer has no
\* effective_min, seller_strategy raises nothing and returns the decision it
\* returns with mcp_server = None.
C25_FallsBackToMinPrice ==
    (Decided("seller_strategy") /\ ProviderFails) =>
        /\ decision.response.type # "raise"
        /\ decision.response =
              seller_strategy(decision.offer, decision.limit, decision.asking_price,
                              decision.turn, decision.max_turns, decision.previous,
                              NoServer)

C25_Witness ==
    /\ Decided("seller_strategy")
    /\ decision.mcp_server.kind = "MCPServer"
    /\ get_pricing_rules(decision.mcp_server, "enterprise-license").raised
    /\ decision.offer < decision.limit
    /\ decision.response.type = "counter"
    /\ decision.response.price >= decision.limit

(***************************************************************************)
(* A caller of the message constructors: one construction, with arguments  *)
(* drawn from the sets below; built holds the call, then its outcome.      *)
(***************************************************************************)
MessagePrices == {0 - 350000, 0 - 10, 0, 10, 300000, 350000}

MessageTexts == {"", "Deal!"}

Construction(cls, price, original_price, message, reason, final_offer) ==
    [ cls |-> cls, price |-> price, original_price |-> original_price,
      message |-> message, reason |-> reason, final_offer |-> final_offer,
      returned |-> FALSE, raised |-> FALSE, value |-> NoMessage ]

Constructions ==
    {Construction(c, x, None, m, "", None) :
        c \in {"Offer", "Accept"}, x \in MessagePrices, m \in MessageTexts}
    \cup {Construction("Counter", x, o, m, "", None) :
        x \in MessagePrices, o \in MessagePrices, m \in MessageTexts}
    \cup {Construction("Reject", None, None, "", r, f) :
        r \in {"", "Price too high"}, f \in MessagePrices \cup {None}}

Built(outcome) ==
    built' = [built EXCEPT !.returned = TRUE, !.raised = outcome.raised,
                           !.value = outcome.value]

ConstructOffer ==
    /\ built.cls = "Offer"
    /\ ~built.returned
    /\ Built(NewOffer(built.price, built.message))
    /\ UNCHANGED <<sess, fsm, last, hist, policy, verdict, decision, judgment, traces, runtime, codec, channel, threads>>

ConstructCounter ==
    /\ built.cls = "Counter"
    /\ ~built.returned
    /\ Built(NewCounter(built.price, built.original_price, built.message))
    /\ UNCHANGED <<sess, fsm, last, hist, policy, verdict, decision, judgment, traces, runtime, codec, channel, threads>>

ConstructAccept ==
    /\ built.cls = "Accept"
    /\ ~built.returned
    /\ Built(NewAccept(built.price, built.message))
    /\ UNCHANGED <<sess, fsm, last, hist, policy, verdict, decision, judgment, traces, runtime, codec, channel, threads>>

ConstructReject ==
    /\ built.cls = "Reject"
    /\ ~built.returned
    /\ Built(NewReject(built.reason, built.final_offer))
    /\ UNCHANGED <<sess, fsm, last, hist, policy, verdict, decision, judgment, traces, runtime, codec, channel, threads>>

MessageInit ==
    /\ built \in Constructions
    /\ sess = << >>
    /\ fsm = NewFSM(10)
    /\ last = NoCall
    /\ hist = NoHist
    /\ policy = NewPolicy(450000, 350000, TRUE)
    /\ verdict = NoVerdict
    /\ decision = NoDecision
    /\ judgment = NoJudgment
    /\ traces = NoTraces
    /\ runtime = NoRuntime
    /\ codec = NoCodec
    /\ channel = NewChannel
    /\ threads = NoThreads

MessageNext ==
    \/ ConstructOffer
    \/ ConstructCounter
    \/ ConstructAccept
    \/ ConstructReject

MessageSpec == MessageInit /\ [][MessageNext]_vars

\* C26: constructing Offer, Counter or Accept with a required price <= 0
\* (price, and original_price of Counter) raises and yields no message; with
\* every required price > 0 it yields the message with the prices given;
\* Reject is constructed whatever its final_offer.
C26_PositivePricesOnly ==
    built.returned =>
        LET invalid ==
                \/ built.cls \in {"Offer", "Counter", "Accept"} /\ built.price <= 0
                \/ built.cls = "Counter" /\ built.original_price <= 0
        IN  /\ built.raised <=> invalid
            /\ built.raised => built.value = NoMessage
            /\ ~built.raised =>
                  /\ built.value.price = built.price
                  /\ built.value.original_price = built.original_price
                  /\ built.value.type =
                        CASE built.cls = "Offer" -> "offer"
                          [] built.cls = "Counter" -> "counter"
                          [] built.cls = "Accept" -> "accept"
                          [] OTHER -> "reject"

C26_Witness ==
    /\ built.returned
    /\ built.cls = "Counter"
    /\ built.price > 0
    /\ built.original_price = 0
    /\ built.raised
    /\ built.value = NoMessage

(***************************************************************************)
(* A batch: two calls of run_negotiation, each with its own configuration  *)
(* and engine, their steps interleaved in any order.                       *)
(***************************************************************************)
Engines == {"graph", "loop"}

BatchConfigs ==
    { <<450000, 350000, 500000, 10>>,
      <<200000, 500000, 600000, 10>>,
      <<350000, 350000, 500000, 10>>,
      <<100006, 110000, 150000, 9>>,
      <<500000, 350000, 50, 1>> }

\* a run before its first step
NewRun(engine, config) ==
    [ engine |-> engine,
      pc |-> IF engine = "graph" THEN "buyer" ELSE "loop",
      state |-> initial_state(config[1], config[2], config[3], config[4]) ]

BatchInit ==
    /\ \E e1 \in Engines, e2 \in Engines, c1 \in BatchConfigs, c2 \in BatchConfigs :
          sess = [s \in Sessions |-> IF s = 1 THEN NewRun(e1, c1) ELSE NewRun(e2, c2)]
    /\ fsm = NewFSM(10)
    /\ last = NoCall
    /\ hist = NoHist
    /\ policy = NewPolicy(450000, 350000, TRUE)
    /\ verdict = NoVerdict
    /\ decision = NoDecision
    /\ built = NotBuilt
    /\ judgment = NoJudgment
    /\ traces = NoTraces
    /\ runtime = NoRuntime
    /\ codec = NoCodec
    /\ channel = NewChannel
    /\ threads = NoThreads

BatchSpec == BatchInit /\ [][Next]_vars

\* one step of a run on its own: the node and the routing of its engine
StepAlone(run) ==
    IF run.engine = "graph"
    THEN LET after == IF run.pc = "buyer" THEN buyer_node(run.state)
                      ELSE seller_node(run.state)
         IN  [run EXCEPT !.state = after, !.pc = router(after)]
    ELSE IF ~LoopContinues(run.state)
    THEN IF run.state.agreed \/ run.state.failure_reason # NoReason
         THEN [run EXCEPT !.pc = "end"]
         ELSE [run EXCEPT !.pc = "end", !.state.failure_reason = "Max turns exceeded"]
    ELSE IF run.state.whose_turn = "buyer"
    THEN [run EXCEPT !.state = buyer_node(run.state)]
    ELSE [run EXCEPT !.state = seller_node(run.state)]

RECURSIVE RunAlone(_)
\* the run carried to its end with nothing else running
RunAlone(run) == IF run.pc = "end" THEN run ELSE RunAlone(StepAlone(run))

RECURSIVE AfterSteps(_, _)
\* the run after n steps on its own
AfterSteps(run, n) ==
    IF n = 0 \/ run.pc = "end" THEN run ELSE AfterSteps(StepAlone(run), n - 1)

ConfigOf(state) ==
    <<state.buyer_max_price, state.seller_min_price, state.seller_asking_price,
      state.max_turns>>

\* the steps a run has taken: one per logged message, and the loop's break
StepsTaken(run) ==
    Len(run.state.messages)
        + (IF run.engine = "loop" /\ run.pc = "end" THEN 1 ELSE 0)

C27_NoStepTouchesTheOther ==
    \A s \in Sessions, t \in Sessions :
        (s # t /\ sess'[s] # sess[s]) => sess'[t] = sess[t]

C27_AsWhenRunAlone ==
    \A s \in Sessions :
        LET alone == NewRun(sess[s].engine, ConfigOf(sess[s].state))
        IN  /\ sess[s] = AfterSteps(alone, StepsTaken(sess[s]))
            /\ Done(s) => Result(sess[s].state) = Result(RunAlone(alone).state)

\* C27: with the steps of two negotiations interleaved in any order, a step
\* of one changes nothing of the other, each run is at every moment where
\* it is after as many steps on its own, and each ends with the result it
\* gives when run alone.
C27_SessionsIsolated == []C27_AsWhenRunAlone /\ [][C27_NoStepTouchesTheOther]_vars

C27_Witness ==
    /\ \A s \in Sessions : Done(s) /\ Len(sess[s].state.messages) >= 4
    /\ ConfigOf(sess[1].state) # ConfigOf(sess[2].state)
    /\ Result(sess[1].state).agreed
    /\ ~Result(sess[2].state).agreed

SameInputs ==
    ConfigOf(sess[1].state) = ConfigOf(sess[2].state)

C29_LogStep ==
    \A s \in Sessions :
        LET before == sess[s].state.messages
            after == sess'[s].state.messages
        IN  IF sess'[s].state.whose_turn # sess[s].state.whose_turn
            THEN /\ Len(after) = Len(before) + 1
                 /\ SubSeq(after, 1, Len(before)) = before
                 /\ after[Len(after)].agent = sess[s].state.whose_turn
            ELSE after = before

\* C29: every buyer or seller step extends messages by exactly one entry at
\* the end, its own, and leaves every entry already logged as it was; no
\* other step changes the log.
C29_LogAppendOnly == [][C29_LogStep]_vars

C29_Witness ==
    \E s \in Sessions :
        /\ Len(sess[s].state.messages) >= 3
        /\ sess[s].state.messages[1].agent = "buyer"
        /\ sess[s].state.messages[3].message.type = "offer"

(***************************************************************************)
(* A caller of judge_protocol: one call, on a log the orchestrator         *)
(* produced (any configuration, either engine, the log as it stands after  *)
(* any number of steps) or on a log written by hand, whose entries may     *)
(* lack the agent key (msg.get gives "unknown").                           *)
(***************************************************************************)
MaxLog == 4

LogAgents == {"buyer", "seller", "unknown"}

HandEntry(agent) == LogEntry(0, agent, Response("offer", 300000, None, ""))

HandLogs ==
    UNION {[1..n -> {HandEntry(a) : a \in LogAgents}] : n \in 0..MaxLog}

\* the log of a run after n steps
ProducedLog(engine, config, n) == AfterSteps(NewRun(engine, config), n).state.messages

JudgeCall(messages, produced) ==
    [NoJudgment EXCEPT !.messages = messages, !.produced = produced]

JudgeProtocol ==
    /\ ~judgment.returned
    /\ LET result == judge_protocol(judgment.messages)
       IN  judgment' = [judgment EXCEPT !.returned = TRUE,
                                        !.passed = result.passed,
                                        !.score = result.score]
    /\ UNCHANGED <<sess, fsm, last, hist, policy, verdict, decision, built, traces, runtime, codec, channel, threads>>

JudgeInit ==
    /\ \/ \E e \in Engines, bm \in BuyerMaxValues, sm \in SellerMinValues,
             ask \in AskingValues, mt \in MaxTurnsValues, n \in 0..(2 * MaxTurnsBound) :
             judgment = JudgeCall(ProducedLog(e, <<bm, sm, ask, mt>>, n), TRUE)
       \/ \E m \in HandLogs : judgment = JudgeCall(m, FALSE)
    /\ sess = << >>
    /\ fsm = NewFSM(10)
    /\ last = NoCall
    /\ hist = NoHist
    /\ policy = NewPolicy(450000, 350000, TRUE)
    /\ verdict = NoVerdict
    /\ decision = NoDecision
    /\ built = NotBuilt
    /\ traces = NoTraces
    /\ runtime = NoRuntime
    /\ codec = NoCodec
    /\ channel = NewChannel
    /\ threads = NoThreads

JudgeNext == JudgeProtocol

JudgeSpec == JudgeInit /\ [][JudgeNext]_vars

\* the actors of the log alternate between buyer and seller, the buyer first
Alternates(messages) ==
    /\ \A i \in DOMAIN messages : messages[i].agent \in {"buyer", "seller"}
    /\ Len(messages) > 0 => messages[1].agent = "buyer"
    /\ \A i \in 1..(Len(messages) - 1) : messages[i].agent # messages[i + 1].agent

\* C30: every log the orchestrator produces alternates between the two
\* actors starting with the buyer, and judge_protocol passes on it;
\* judge_protocol passes, with score 1.0, exactly for the logs that
\* alternate starting with the buyer.
C30_JudgePassesAlternating ==
    /\ judgment.produced => Alternates(judgment.messages)
    /\ judgment.returned =>
          /\ judgment.passed <=> Alternates(judgment.messages)
          /\ judgment.passed <=> judgment.score = <<1, 1>>
          /\ judgment.produced => judgment.passed

C30_Witness ==
    /\ judgment.returned
    /\ judgment.produced
    /\ Len(judgment.messages) >= 4
    /\ judgment.messages[Len(judgment.messages)].message.type = "reject"
    /\ judgment.passed

(***************************************************************************)
(* Any caller of the tracer: its four methods in any order, on any session *)
(* id, a trace holding at most MaxEvents records.                          *)
(***************************************************************************)
MaxEvents == 3

\* the call would not carry a trace beyond MaxEvents records
Room(session_id) ==
    session_id \in DOMAIN traces => Len(traces[session_id].records) < MaxEvents

StartTrace ==
    /\ \E id \in TraceIds : traces' = start_trace(traces, id)
    /\ UNCHANGED <<sess, fsm, last, hist, policy, verdict, decision, built, judgment, runtime, codec, channel, threads>>

EndTrace ==
    /\ \E id \in TraceIds :
          /\ Room(id)
          /\ traces' = end_trace(traces, id)
    /\ UNCHANGED <<sess, fsm, last, hist, policy, verdict, decision, built, judgment, runtime, codec, channel, threads>>

LogTurn ==
    /\ \E id \in TraceIds, agent \in {"buyer", "seller"} :
          /\ Room(id)
          /\ traces' = log_turn(traces, id, 0, agent, "offer", 300000)
    /\ UNCHANGED <<sess, fsm, last, hist, policy, verdict, decision, built, judgment, runtime, codec, channel, threads>>

LogOutcome ==
    /\ \E id \in TraceIds, agreed \in BOOLEAN :
          /\ Room(id)
          /\ traces' = log_outcome(traces, id, agreed,
                                   IF agreed THEN 300000 ELSE None, 1,
                                   IF agreed THEN NoReason ELSE "Seller rejected")
    /\ UNCHANGED <<sess, fsm, last, hist, policy, verdict, decision, built, judgment, runtime, codec, channel, threads>>

TraceInit ==
    /\ traces = NoTraces
    /\ sess = << >>
    /\ fsm = NewFSM(10)
    /\ last = NoCall
    /\ hist = NoHist
    /\ policy = NewPolicy(450000, 350000, TRUE)
    /\ verdict = NoVerdict
    /\ decision = NoDecision
    /\ built = NotBuilt
    /\ judgment = NoJudgment
    /\ runtime = NoRuntime
    /\ codec = NoCodec
    /\ channel = NewChannel
    /\ threads = NoThreads

TraceNext ==
    \/ StartTrace
    \/ EndTrace
    \/ LogTurn
    \/ LogOutcome

TraceSpec == TraceInit /\ [][TraceNext]_vars

C31_RecordsKept ==
    \A id \in DOMAIN traces :
        /\ id \in DOMAIN traces'
        /\ Len(traces'[id].records) >= Len(traces[id].records)
        /\ SubSeq(traces'[id].records, 1, Len(traces[id].records)) = traces[id].records

\* C31: under every sequence of start_trace, log_turn, log_outcome and
\* end_trace calls, the records of a session id stay in its trace, in their
\* places and unchanged: every call leaves the records that were there as a
\* prefix of the records afterwards.
C31_TraceAppendOnly == [][C31_RecordsKept]_vars

C32_StepLegal ==
    \A s \in Sessions :
        LET before == sess[s].state
            after == sess'[s].state
            entry == LastEntry(after)
        IN  (Len(after.messages) = Len(before.messages) + 1
               /\ entry.message.type \in {"offer", "counter"}) =>
                validate_action(
                    NewPolicy(before.buyer_max_price, before.seller_min_price, TRUE),
                    entry.agent, before.whose_turn, entry.message.type,
                    entry.message.price, before.previous_buyer_offer,
                    before.previous_seller_counter,
                    before.agreed \/ before.failure_reason # NoReason).allowed

\* C32: for every offer or counter a step logs, validate_action of
\* CoordinationPolicy(buyer_max_price, seller_min_price), called with the
\* acting party, the party whose turn it was before the step, the message
\* type, the price and the previous prices before the step, returns allowed.
C32_RecordedActionsLegal == [][C32_StepLegal]_vars

(***************************************************************************)
(* NegotiationRuntime._run_simple_negotiation(session), the fallback of    *)
(* run_session: one action for the lines before the loop, one for the      *)
(* buyer's half of an iteration, one for the seller's half, one for        *)
(* leaving the loop.                                                       *)
(***************************************************************************)
\* lines 308-312: the FSM is constructed and started, the locals are set
RuntimeBegin ==
    /\ runtime.pc = "call"
    /\ fsm' = start(NewFSM(runtime.session.max_turns)).fsm
    /\ runtime' = [runtime EXCEPT !.pc = "head", !.turn = 0,
                                  !.current_price = runtime.session.seller_asking_price,
                                  !.previous_offer = None]
    /\ UNCHANGED <<sess, last, hist, policy, verdict, decision, built, judgment, traces, codec, channel, threads>>

\* lines 314-344: the head of the loop and the buyer's half
RuntimeBuyer ==
    /\ runtime.pc = "head"
    /\ runtime.turn < runtime.session.max_turns
    /\ is_active(fsm)
    /\ LET session == runtime.session
           buyer_msg == buyer_strategy(runtime.current_price, session.buyer_max_price,
                                       runtime.turn, session.max_turns,
                                       runtime.previous_offer)
           logged == [session EXCEPT
                         !.turns_taken = runtime.turn + 1,
                         !.messages = Append(session.messages,
                                             LogEntry(runtime.turn, "buyer", buyer_msg))]
       IN  CASE buyer_msg.type = "accept" ->
                  /\ fsm' = accept(fsm, buyer_msg.price).fsm
                  /\ runtime' = [runtime EXCEPT
                        !.pc = "returned", !.buyer_msg = buyer_msg,
                        !.session = [logged EXCEPT !.agreed = TRUE,
                                                   !.final_price = buyer_msg.price]]
             [] buyer_msg.type = "reject" ->
                  /\ fsm' = reject(fsm, "Buyer rejected", TRUE).fsm
                  /\ runtime' = [runtime EXCEPT !.pc = "returned", !.buyer_msg = buyer_msg,
                                                !.session = logged]
             [] OTHER ->
                  /\ fsm' = fsm
                  /\ runtime' = [runtime EXCEPT !.pc = "seller", !.buyer_msg = buyer_msg,
                                                !.session = logged,
                                                !.previous_offer = buyer_msg.price]
    /\ UNCHANGED <<sess, last, hist, policy, verdict, decision, built, judgment, traces, codec, channel, threads>>

\* lines 346-370: the seller's half; seller_strategy is called without
\* previous_counter and without mcp_server, and reject without by_buyer
RuntimeSeller ==
    /\ runtime.pc = "seller"
    /\ LET session == runtime.session
           seller_msg == seller_strategy(runtime.buyer_msg.price, session.seller_min_price,
                                         session.seller_asking_price, runtime.turn,
                                         session.max_turns, None, NoServer)
           logged == [session EXCEPT
                         !.messages = Append(session.messages,
                                             LogEntry(runtime.turn, "seller", seller_msg))]
       IN  CASE seller_msg.type = "accept" ->
                  /\ fsm' = accept(fsm, seller_msg.price).fsm
                  /\ runtime' = [runtime EXCEPT
                        !.pc = "returned",
                        !.session = [logged EXCEPT !.agreed = TRUE,
                                                   !.final_price = seller_msg.price]]
             [] seller_msg.type = "reject" ->
                  /\ fsm' = reject(fsm, "Seller rejected", TRUE).fsm
                  /\ runtime' = [runtime EXCEPT !.pc = "returned", !.session = logged]
             [] OTHER ->
                  /\ fsm' = fsm
                  /\ runtime' = [runtime EXCEPT !.pc = "head", !.session = logged,
                                                !.turn = runtime.turn + 1,
                                                !.current_price = seller_msg.price]
    /\ UNCHANGED <<sess, last, hist, policy, verdict, decision, built, judgment, traces, codec, channel, threads>>

\* the loop ends: range(max_turns) is used up, or the FSM is no longer active
RuntimeLoopEnds ==
    /\ runtime.pc = "head"
    /\ ~(runtime.turn < runtime.session.max_turns /\ is_active(fsm))
    /\ runtime' = [runtime EXCEPT !.pc = "returned"]
    /\ UNCHANGED <<sess, fsm, last, hist, policy, verdict, decision, built, judgment, traces, codec, channel, threads>>

RuntimeInit ==
    /\ \E bm \in BuyerMaxValues, sm \in SellerMinValues,
          ask \in AskingValues, mt \in MaxTurnsValues :
          runtime = RuntimeCall(Session(bm, sm, ask, mt))
    /\ sess = << >>
    /\ fsm = NewFSM(10)
    /\ last = NoCall
    /\ hist = NoHist
    /\ policy = NewPolicy(450000, 350000, TRUE)
    /\ verdict = NoVerdict
    /\ decision = NoDecision
    /\ built = NotBuilt
    /\ judgment = NoJudgment
    /\ traces = NoTraces
    /\ codec = NoCodec
    /\ channel = NewChannel
    /\ threads = NoThreads

RuntimeNext ==
    \/ RuntimeBegin
    \/ RuntimeBuyer
    \/ RuntimeSeller
    \/ RuntimeLoopEnds

RuntimeSpec == RuntimeInit /\ [][RuntimeNext]_vars

RuntimeReturned == runtime.pc = "returned"

\* C33: when _run_simple_negotiation has returned, its FSM is in a terminal
\* state, session.agreed holds iff the FSM is in AGREED, and a session
\* without agreement has its FSM in FAILED with a failure reason.
C33_ReturnsWithTerminalFSM ==
    RuntimeReturned =>
        /\ is_terminal(fsm)
        /\ runtime.session.agreed <=> fsm.state = "AGREED"
        /\ ~runtime.session.agreed =>
              (fsm.state = "FAILED" /\ fsm.failure_reason # NoReason)

\* C34: when _run_simple_negotiation has returned after a reject, the FSM is
\* in FAILED with REJECTED_BY_SELLER if seller_strategy returned the reject
\* and with REJECTED_BY_BUYER if buyer_strategy did.
C34_ReasonNamesRejecter ==
    (RuntimeReturned /\ Len(runtime.session.messages) > 0
       /\ LastEntry(runtime.session).message.type = "reject") =>
        /\ fsm.state = "FAILED"
        /\ fsm.failure_reason =
              IF LastEntry(runtime.session).agent = "seller"
              THEN "REJECTED_BY_SELLER" ELSE "REJECTED_BY_BUYER"

\* C35: for the same four inputs _run_simple_negotiation leaves in the
\* session the agreed flag, the final price and the message sequence that
\* run_negotiation returns.
C35_SameAsOrchestrator ==
    RuntimeReturned =>
        \A e \in Engines :
            LET session == runtime.session
                result == Result(RunAlone(NewRun(e, ConfigOf(session))).state)
            IN  /\ session.agreed = result.agreed
                /\ session.final_price = result.final_price
                /\ session.messages = result.messages

StateChanges == {<<"IDLE", "NEGOTIATING">>, <<"NEGOTIATING", "AGREED">>, <<"NEGOTIATING", "FAILED">>}

C36_StepIsEdge ==
    fsm'.state # fsm.state =>
        /\ fsm'.state \in TRANSITIONS[fsm.state]
        /\ <<fsm.state, fsm'.state>> \in StateChanges

\* C36: every change of state made by a method of NegotiationFSM is an edge
\* of TRANSITIONS and is one of IDLE to NEGOTIATING, NEGOTIATING to AGREED,
\* NEGOTIATING to FAILED; AGREED and FAILED are never entered from IDLE.
C36_OnlyTableEdges == [][C36_StepIsEdge]_vars

C36_Witness ==
    /\ fsm.state = "AGREED"
    /\ last.op = "accept"
    /\ last.ret = "True"
    /\ fsm.agreed_price = 500000

\* the entries of a log whose message has the given type
OfType(messages, type) == SelectSeq(messages, LAMBDA m : m.message.type = type)

\* the price of the most recent message of the given type, None without one
LatestPrice(messages, type) ==
    LET those == OfType(messages, type)
    IN  IF those = << >> THEN None ELSE those[Len(those)].message.price

C37_StateTracksLog(state) ==
    LET offers == OfType(state.messages, "offer")
        counters == OfType(state.messages, "counter")
    IN  /\ (state.previous_buyer_offer = None) <=> (offers = << >>)
        /\ state.previous_buyer_offer = LatestPrice(state.messages, "offer")
        /\ (state.previous_seller_counter = None) <=> (counters = << >>)
        /\ state.previous_seller_counter = LatestPrice(state.messages, "counter")
        /\ counters # << >> =>
              state.current_offer = LatestPrice(state.messages, "counter")

C37_SellerAnswersLatestOffer(state) ==
    \A i \in 1..Len(state.messages) :
        state.messages[i].agent = "seller" =>
            LET before == SubSeq(state.messages, 1, i - 1)
                answer == state.messages[i].message
            IN  /\ OfType(before, "offer") # << >>
                /\ answer.type = "counter" =>
                      answer.original_price = LatestPrice(before, "offer")
                /\ answer.type = "accept" =>
                      answer.price = LatestPrice(before, "offer")

\* C37: in every reachable state of a run, previous_buyer_offer is None iff
\* no offer is logged and else is the price of the latest logged offer;
\* previous_seller_counter, and current_offer once there is a counter, is
\* the price of the latest logged counter; every seller message comes after
\* a buyer offer and answers the latest one.
C37_PreviousPricesAreLatest ==
    \A s \in Sessions :
        /\ C37_StateTracksLog(sess[s].state)
        /\ C37_SellerAnswersLatestOffer(sess[s].state)

C37_Witness ==
    \E s \in Sessions :
        LET state == sess[s].state
            offers == OfType(state.messages, "offer")
            counters == OfType(state.messages, "counter")
        IN  /\ Len(offers) >= 3
            /\ Len(counters) >= 2
            /\ offers[1].message.price # state.previous_buyer_offer
            /\ counters[1].message.price # state.previous_seller_counter
            /\ LastEntry(state).agent = "seller"

(***************************************************************************)
(* The protocol's serialisation: a validly constructed message goes        *)
(* through to_dict and then parse_message; a dict written by hand goes     *)
(* through parse_message alone.                                            *)
(***************************************************************************)
CodecPrices == {10, 300000, 350000}

CodecTexts == {"", "Deal!"}

CodecKeys == {"type", "price", "original_price", "message", "reason", "final_offer"}

\* the messages the four constructors return without raising
ValidMessages ==
    {NewOffer(x, m).value : x \in CodecPrices, m \in CodecTexts}
    \cup {NewCounter(x, o, m).value : x \in CodecPrices, o \in CodecPrices, m \in CodecTexts}
    \cup {NewAccept(x, m).value : x \in CodecPrices, m \in CodecTexts}
    \cup {NewReject(r, f).value : r \in {"", "Price too high"},
                                  f \in CodecPrices \cup {None, 0, 0 - 10}}

ToDict ==
    /\ codec.pc = "message"
    /\ LET d == to_dict(codec.msg)
       IN  codec' = IF d.raised = "None"
                    THEN [codec EXCEPT !.pc = "dict", !.data = d.value]
                    ELSE [codec EXCEPT !.pc = "done", !.raised = d.raised]
    /\ UNCHANGED <<sess, fsm, last, hist, policy, verdict, decision, built, judgment, traces, runtime, channel, threads>>

ParseMessage ==
    /\ codec.pc = "dict"
    /\ LET r == parse_message(codec.data)
       IN  codec' = [codec EXCEPT !.pc = "done", !.raised = r.raised, !.parsed = r.value]
    /\ UNCHANGED <<sess, fsm, last, hist, policy, verdict, decision, built, judgment, traces, runtime, channel, threads>>

CodecInit ==
    /\ \/ \E m \in ValidMessages : codec = CodecCall("message", m, EmptyDict)
       \/ \E keys \in SUBSET CodecKeys,
             t \in {"offer", "counter", "accept", "reject", "bid", ""},
             x \in {0, 300000}, f \in {None, 350000} :
             LET full == [type |-> t, price |-> x, original_price |-> 300000,
                          message |-> "Deal!", reason |-> "Price too high",
                          final_offer |-> f]
             IN  codec = CodecCall("dict", NoMessage, [k \in keys |-> full[k]])
    /\ sess = << >>
    /\ fsm = NewFSM(10)
    /\ last = NoCall
    /\ hist = NoHist
    /\ policy = NewPolicy(450000, 350000, TRUE)
    /\ verdict = NoVerdict
    /\ decision = NoDecision
    /\ built = NotBuilt
    /\ judgment = NoJudgment
    /\ traces = NoTraces
    /\ runtime = NoRuntime
    /\ channel = NewChannel
    /\ threads = NoThreads

CodecNext ==
    \/ ToDict
    \/ ParseMessage

CodecSpec == CodecInit /\ [][CodecNext]_vars

KnownTypes == {"offer", "counter", "accept", "reject"}

\* C38: a validly constructed Offer, Counter, Accept or Reject that went
\* through to_dict and parse_message comes back equal to itself, and
\* parse_message raises ValueError and returns no message for a dict whose
\* type is none of offer, counter, accept, reject (or is missing).
C38_RoundTrip ==
    codec.pc = "done" =>
        /\ codec.origin = "message" =>
              (codec.raised = "None" /\ codec.parsed = codec.msg)
        /\ (codec.origin = "dict" /\ Get(codec.data, "type", "None") \notin KnownTypes) =>
              (codec.raised = "ValueError" /\ codec.parsed = NoMessage)

C38_Witness ==
    /\ codec.pc = "done"
    /\ codec.origin = "message"
    /\ codec.msg.type = "counter"
    /\ codec.msg.price # codec.msg.original_price
    /\ codec.data.original_price = codec.msg.original_price
    /\ codec.parsed = codec.msg

C38_WitnessUnknownType ==
    /\ codec.pc = "done"
    /\ codec.origin = "dict"
    /\ "type" \in DOMAIN codec.data
    /\ codec.data.type = "bid"
    /\ "price" \in DOMAIN codec.data
    /\ codec.raised = "ValueError"

(***************************************************************************)
(* A2AChannel under several threads.  Every public method runs inside      *)
(* "with self._lock", a threading.Lock: acquiring waits while the lock is  *)
(* held, whoever holds it.  send calls the recipient's subscribers before  *)
(* it releases the lock; a subscriber is "log" (returns at once), "reply"  *)
(* (calls send), "poll" (calls receive) or "join" (calls subscribe) on the *)
(* same channel.                                                           *)
(***************************************************************************)
MaxSent == 2

MaxSubscribers == 1

Recipients == Agents \cup {"ghost"}

TaskIds == {"task-1"}

Callbacks == {"log", "reply", "poll", "join"}

A2AMessage(id, sender, recipient, task_id) ==
    [id |-> id, sender |-> sender, recipient |-> recipient, task_id |-> task_id]

NoA2AMessage == A2AMessage(0, "", "", "")

\* one call of a channel method by a thread, waiting for the lock
Frame(op, message, agent_id, callback) ==
    [ op |-> op, message |-> message, agent_id |-> agent_id, callback |-> callback,
      pc |-> "acquire", index |-> 0 ]

Ids(inbox) == [i \in 1..Len(inbox) |-> inbox[i].id]

\* send, lines 186-192: the inbox and the task history
deliver(ch, message) ==
    LET queued == [ch EXCEPT !._messages[message.recipient] = Append(@, message)]
    IN  IF message.task_id # ""
        THEN [queued EXCEPT !._tasks =
                 SetItem(ch._tasks, message.task_id,
                         Append(Get(ch._tasks, message.task_id, << >>), message))]
        ELSE queued

\* receive returning the first message without taking it out of the inbox
receive_peeks(ch, agent_id) ==
    LET inbox == Get(ch._messages, agent_id, << >>)
    IN  IF inbox # << >>
        THEN [channel |-> ch, ret |-> Head(inbox)]
        ELSE [channel |-> ch, ret |-> NoA2AMessage]

receive(ch, agent_id) ==
    LET inbox == Get(ch._messages, agent_id, << >>)
    IN  IF inbox # << >>
        THEN [channel |-> [ch EXCEPT !._messages[agent_id] = Tail(inbox)],
              ret |-> Head(inbox)]
        ELSE [channel |-> ch, ret |-> NoA2AMessage]

subscribe(ch, agent_id, callback) ==
    [ch EXCEPT !._subscribers =
        SetItem(ch._subscribers, agent_id,
                Append(Get(ch._subscribers, agent_id, << >>), callback))]

Top(t) == threads.stack[t][Len(threads.stack[t])]

InCall(t, op, pc) ==
    /\ threads.stack[t] # << >>
    /\ Top(t).op = op
    /\ Top(t).pc = pc

Push(t, frame) == [threads EXCEPT !.stack[t] = Append(@, frame)]

\* the innermost call returns (or raises into the try of the send that
\* called the subscriber): the caller, if any, goes on to its next subscriber
Unwind(stack) ==
    LET rest == SubSeq(stack, 1, Len(stack) - 1)
    IN  IF rest = << >> THEN rest
        ELSE [rest EXCEPT ![Len(rest)].index = @ + 1]

\* how many subscribers there are, registered or about to be, over all agents
Subscribing ==
    LET registered == {<<a, i>> \in Recipients \X (1..(MaxSubscribers + 1)) :
                          i <= Len(Get(channel._subscribers, a, << >>))}
        calling == {t \in Threads : \E i \in 1..Len(threads.stack[t]) :
                                        threads.stack[t][i].op = "subscribe"}
    IN  Cardinality(registered) + Cardinality(calling)

CallSend(t) ==
    /\ threads.stack[t] = << >>
    /\ threads.created < MaxSent
    /\ \E recipient \in Recipients, task_id \in TaskIds :
          LET sender == IF recipient = "buyer" THEN "seller" ELSE "buyer"
              message == A2AMessage(threads.created + 1, sender, recipient, task_id)
          IN  threads' = [Push(t, Frame("send", message, "", "")) EXCEPT
                             !.created = threads.created + 1]
    /\ UNCHANGED <<sess, fsm, last, hist, policy, verdict, decision, built, judgment, traces, runtime, codec, channel>>

CallReceive(t) ==
    /\ threads.stack[t] = << >>
    /\ \E agent_id \in Recipients :
          threads' = Push(t, Frame("receive", NoA2AMessage, agent_id, ""))
    /\ UNCHANGED <<sess, fsm, last, hist, policy, verdict, decision, built, judgment, traces, runtime, codec, channel>>

CallSubscribe(t) ==
    /\ threads.stack[t] = << >>
    /\ \E agent_id \in Agents, callback \in Callbacks :
          /\ Subscribing < MaxSubscribers
          /\ threads' = Push(t, Frame("subscribe", NoA2AMessage, agent_id, callback))
    /\ UNCHANGED <<sess, fsm, last, hist, policy, verdict, decision, built, judgment, traces, runtime, codec, channel>>

\* with self._lock: entered only while the lock is free
Acquire(t) ==
    /\ threads.stack[t] # << >>
    /\ Top(t).pc = "acquire"
    /\ channel._lock = "unlocked"
    /\ channel' = [channel EXCEPT !._lock = t]
    /\ threads' = [threads EXCEPT !.stack[t][Len(threads.stack[t])].pc = "locked"]
    /\ UNCHANGED <<sess, fsm, last, hist, policy, verdict, decision, built, judgment, traces, runtime, codec>>

\* send, lines 182-192: ValueError for an unknown recipient, which leaves
\* the with block and so releases the lock
SendBody(t) ==
    /\ InCall(t, "send", "locked")
    /\ LET message == Top(t).message
       IN  IF message.recipient \notin DOMAIN channel._messages
           THEN /\ channel' = [channel EXCEPT !._lock = "unlocked"]
                /\ threads' = [threads EXCEPT !.stack[t] = Unwind(@)]
           ELSE /\ channel' = deliver(channel, message)
                /\ threads' = [threads EXCEPT
                      !.stack[t][Len(threads.stack[t])].pc = "notify",
                      !.stack[t][Len(threads.stack[t])].index = 1,
                      !.sent[message.recipient] = Append(@, message.id)]
    /\ UNCHANGED <<sess, fsm, last, hist, policy, verdict, decision, built, judgment, traces, runtime, codec>>

Pending(t) ==
    /\ Top(t).message.recipient \in DOMAIN channel._subscribers
    /\ Top(t).index <= Len(channel._subscribers[Top(t).message.recipient])

\* send, lines 195-200: the next subscriber is called, the lock still held
Notify(t) ==
    /\ InCall(t, "send", "notify")
    /\ Pending(t)
    /\ LET message == Top(t).message
           callback == channel._subscribers[message.recipient][Top(t).index]
       IN  threads' =
             CASE callback = "reply" ->
                    Push(t, Frame("send",
                                  A2AMessage(0 - message.id, message.recipient,
                                             message.sender, message.task_id), "", ""))
               [] callback = "poll" ->
                    Push(t, Frame("receive", NoA2AMessage, message.recipient, ""))
               [] callback = "join" ->
                    Push(t, Frame("subscribe", NoA2AMessage, message.recipient, "log"))
               [] OTHER ->
                    [threads EXCEPT !.stack[t][Len(threads.stack[t])].index = @ + 1]
    /\ UNCHANGED <<sess, fsm, last, hist, policy, verdict, decision, built, judgment, traces, runtime, codec, channel>>

\* send: no subscriber left, the with block ends and releases the lock
SendReturn(t) ==
    /\ InCall(t, "send", "notify")
    /\ ~Pending(t)
    /\ channel' = [channel EXCEPT !._lock = "unlocked"]
    /\ threads' = [threads EXCEPT !.stack[t] = Unwind(@)]
    /\ UNCHANGED <<sess, fsm, last, hist, policy, verdict, decision, built, judgment, traces, runtime, codec>>

ReceiveBody(t) ==
    /\ InCall(t, "receive", "locked")
    /\ LET agent_id == Top(t).agent_id
           r == receive(channel, agent_id)
       IN  /\ channel' = [r.channel EXCEPT !._lock = "unlocked"]
           /\ threads' = [threads EXCEPT
                 !.stack[t] = Unwind(@),
                 !.received = IF r.ret = NoA2AMessage THEN @
                              ELSE [@ EXCEPT ![agent_id] = Append(@, r.ret.id)]]
    /\ UNCHANGED <<sess, fsm, last, hist, policy, verdict, decision, built, judgment, traces, runtime, codec>>

SubscribeBody(t) ==
    /\ InCall(t, "subscribe", "locked")
    /\ channel' = [subscribe(channel, Top(t).agent_id, Top(t).callback) EXCEPT
                      !._lock = "unlocked"]
    /\ threads' = [threads EXCEPT !.stack[t] = Unwind(@)]
    /\ UNCHANGED <<sess, fsm, last, hist, policy, verdict, decision, built, judgment, traces, runtime, codec>>

ChannelInit ==
    /\ channel = NewChannel
    /\ threads = NoThreads
    /\ sess = << >>
    /\ fsm = NewFSM(10)
    /\ last = NoCall
    /\ hist = NoHist
    /\ policy = NewPolicy(450000, 350000, TRUE)
    /\ verdict = NoVerdict
    /\ decision = NoDecision
    /\ built = NotBuilt
    /\ judgment = NoJudgment
    /\ traces = NoTraces
    /\ runtime = NoRuntime
    /\ codec = NoCodec

\* a thread inside a call goes on whenever it can
Proceed(t) ==
    \/ Acquire(t)
    \/ SendBody(t)
    \/ Notify(t)
    \/ SendReturn(t)
    \/ ReceiveBody(t)
    \/ SubscribeBody(t)

ChannelNext ==
    \E t \in Threads :
        \/ CallSend(t)
        \/ CallReceive(t)
        \/ CallSubscribe(t)
        \/ Proceed(t)

ChannelSpec == ChannelInit /\ [][ChannelNext]_vars

\* a thread in a call keeps running, and a thread waiting for the lock gets
\* it if the lock is free again and again
ChannelLiveSpec ==
    ChannelSpec /\ \A t \in Threads : WF_vars(Proceed(t)) /\ SF_vars(Acquire(t))

\* C39: under any interleaving of the threads' send and receive calls, what
\* receive has returned for an agent, followed by what is still in the
\* agent's inbox, is what send delivered to the agent, in the order the
\* sends took effect: no message lost, none returned twice, none reordered.
C39_ExactlyOnceInOrder ==
    \A a \in Agents :
        threads.received[a] \o Ids(channel._messages[a]) = threads.sent[a]

C39_Witness ==
    /\ threads.received["buyer"] = <<1>>
    /\ Ids(channel._messages["buyer"]) = <<2>>
    /\ InCall("T1", "receive", "acquire")
    /\ InCall("T2", "send", "notify")

InSend(t) == threads.stack[t] # << >> /\ threads.stack[t][1].op = "send"

\* C40: a thread that has called send gets out of the call, with the lock
\* free, whatever the recipient's subscribers do during delivery.
C40_SendReturns ==
    \A t \in Threads :
        InSend(t) ~> (threads.stack[t] = << >> /\ channel._lock # t)

====
